---- MODULE Spec2Model ----
(***************************************************************************)
(* Model of the ovfs request pipeline: the FUSE dispatcher of              *)
(* src/src/filesystem.rs over the descriptor-chain Reader/Writer of        *)
(* src/src/util.rs, the staging buffer of src/src/buffer.rs and the        *)
(* serial event loop of src/src/main.rs.                                   *)
(*                                                                         *)
(* A path is the sequence of its characters; names are one character long  *)
(* and "/" is the separator, so format!("{}/{}", parent, name) is          *)
(* parent \o <<"/">> \o name.  Descriptor chains are sequences of slice    *)
(* lengths.  The storage backend is an object store keyed by the           *)
(* normalised path.                                                        *)
(***************************************************************************)
EXTENDS Integers, Sequences, FiniteSets, TLC

VARIABLES opened_files, opened_files_map, opened_files_writer, backend,
          capability, avail, last, lookup_ino, panicked, vq, fut, dcc,
          ovfs, threads

vars == <<opened_files, opened_files_map, opened_files_writer, backend,
          capability, avail, last, lookup_ino, panicked, vq, fut, dcc, ovfs, threads>>

(* ---------------------------- bounds ----------------------------------- *)
MaxSlots == 4
MaxLen == 2
MaxData == 2
MaxPathLen == 4

(* ----------------------- program constants ----------------------------- *)
KERNEL_VERSION == 7
KERNEL_MINOR_VERSION == 38
MIN_KERNEL_MINOR_VERSION == 27
BUFFER_HEADER_SIZE == 4096
MAX_BUFFER_SIZE == 1048576
DEFAULT_ROOT_DIR_INODE == 1
DEAFULT_DIR_TYPE_IN_DIR_ENTRY == 4
DEAFULT_FILE_TYPE_IN_DIR_ENTRY == 8

EIO == 5
EBADF == 9
ENOENT == 2
ENOSYS == 38
EACCES == 13
EBUSY == 16
EEXIST == 17
ENOTDIR == 20
EISDIR == 21
EINVAL == 22
EOPNOTSUPP == 95

O_ACCMODE == 3
O_WRONLY == 1
O_RDWR == 2
O_CREAT == 64
O_TRUNC == 512
O_APPEND == 1024

(* sizes of the #[repr(C)] records of filesystem_message.rs *)
SizeInHeader == 40
SizeOutHeader == 16
SizeInitIn == 16
SizeInitOut == 64
SizeAttrOut == 104
SizeEntryOut == 128
SizeDirEntryOut == 24
SizeCreateIn == 16
SizeMkdirIn == 8
SizeOpenIn == 8
SizeOpenOut == 16
SizeWriteIn == 40
SizeWriteOut == 8
SizeReadIn == 40

OpLookup == 1
OpForget == 2
OpGetattr == 3
OpSetattr == 4
OpMkdir == 9
OpUnlink == 10
OpRmdir == 11
OpOpen == 14
OpRead == 15
OpWrite == 16
OpRelease == 18
OpFlush == 25
OpInit == 26
OpOpendir == 27
OpReaddir == 28
OpReleasedir == 29
OpFsyncdir == 30
OpCreate == 35
OpDestroy == 38

(* the values Opcode::try_from accepts *)
Opcodes == {OpLookup, OpForget, OpGetattr, OpSetattr, OpMkdir, OpUnlink,
            OpRmdir, OpOpen, OpRead, OpWrite, OpRelease, OpFlush, OpInit,
            OpOpendir, OpReaddir, OpReleasedir, OpFsyncdir, OpCreate,
            OpDestroy}

(* ------------------------------ helpers -------------------------------- *)
Min(a, b) == IF a < b THEN a ELSE b

RECURSIVE SumSeq(_)
SumSeq(s) == IF s = <<>> THEN 0 ELSE Head(s) + SumSeq(Tail(s))

(* flags & bit != 0, for bit a power of two *)
HasBit(flags, bit) == (flags \div bit) % 2 = 1

MapInsert(m, k, v) == [x \in (DOMAIN m) \cup {k} |-> IF x = k THEN v ELSE m[x]]
MapRemove(m, k) == [x \in (DOMAIN m) \ {k} |-> m[x]]

(* ------------------ util.rs: DescriptorChainConsumer ------------------- *)
(* A consumer is [buffers |-> sequence of slice lengths, bytes_consumed]. *)
NewConsumer(bufs) == [buffers |-> bufs, bytes_consumed |-> 0]

(* consume, lines 39-52: the slices handed to the closure *)
RECURSIVE ConsumePrefix(_, _, _)
ConsumePrefix(buffers, count, len) ==
    IF buffers = <<>> \/ len >= count THEN <<>>
    ELSE LET vs == Head(buffers)
             remain == count - len
             add == IF remain < vs THEN remain ELSE vs
         IN <<vs>> \o ConsumePrefix(Tail(buffers), count, len + add)

(* a pop loop that drops the slice it stops in *)
RECURSIVE PopFrontWholeSlices(_, _)
PopFrontWholeSlices(buffers, remain) ==
    IF buffers = <<>> THEN <<>>
    ELSE IF remain < Head(buffers)
         THEN Tail(buffers)
         ELSE PopFrontWholeSlices(Tail(buffers), remain - Head(buffers))

(* consume, lines 64-71: drop the consumed bytes from the front *)
RECURSIVE PopFront(_, _)
PopFront(buffers, remain) ==
    IF buffers = <<>> THEN <<>>
    ELSE IF remain < Head(buffers)
         THEN <<Head(buffers) - remain>> \o Tail(buffers)
         ELSE PopFront(Tail(buffers), remain - Head(buffers))

(* consume(count, f), lines 53-73: bufs are the slices handed to the      *)
(* closure f and k the number of bytes f reports consumed.  The           *)
(* checked_add overflow of usize is out of reach of the bounds.           *)
Consumed(c, bufs, k) ==
    IF bufs = <<>> THEN [c |-> c, n |-> 0]
    ELSE [c |-> [buffers |-> PopFront(c.buffers, k),
                 bytes_consumed |-> c.bytes_consumed + k],
          n |-> k]

(* the closure of Reader::read and Writer::write for a buffer of n bytes *)
RECURSIVE CopyTotal(_, _)
CopyTotal(bufs, rem) ==
    IF bufs = <<>> THEN 0
    ELSE LET copy_len == Min(rem, Head(bufs))
         IN copy_len + CopyTotal(Tail(bufs), rem - copy_len)

StreamIo(c, n) ==
    Consumed(c, ConsumePrefix(c.buffers, n, 0),
             CopyTotal(ConsumePrefix(c.buffers, n, 0), n))

(* std::io::Read::read_exact / Write::write_all over StreamIo: repeat     *)
(* until n bytes moved; a transfer of 0 bytes is UnexpectedEof/WriteZero. *)
RECURSIVE ExactIo(_, _)
ExactIo(c, n) ==
    IF n = 0 THEN [ok |-> TRUE, c |-> c]
    ELSE LET r == StreamIo(c, n)
         IN IF r.n = 0 THEN [ok |-> FALSE, c |-> r.c]
            ELSE ExactIo(r.c, n - r.n)

(* Reader::read_obj::<T>() with size_of::<T>() = n *)
ReadObj(c, n) == ExactIo(c, n)

(* buffer.rs read_vectored_at_volatile: bytes copied out of a staging     *)
(* buffer of datalen bytes into the slices                                *)
RECURSIVE ReadVectoredAtVolatile(_, _)
ReadVectoredAtVolatile(datalen, bufs) ==
    IF bufs = <<>> THEN 0
    ELSE LET num == Min(datalen, Head(bufs))
         IN IF num = 0 THEN 0
            ELSE num + ReadVectoredAtVolatile(datalen - num, Tail(bufs))

(* buffer.rs write_vectored_at_volatile: the staging buffer becomes the   *)
(* concatenation of the whole slices; returns its length                  *)
WriteVectoredAtVolatile(bufs) == SumSeq(bufs)

(* Reader::read_to_at(dst, count) *)
ReadToAt(c, count) ==
    Consumed(c, ConsumePrefix(c.buffers, count, 0),
             WriteVectoredAtVolatile(ConsumePrefix(c.buffers, count, 0)))

(* Writer::write_from_at(src, count), src holding datalen bytes *)
WriteFromAt(c, datalen, count) ==
    Consumed(c, ConsumePrefix(c.buffers, count, 0),
             ReadVectoredAtVolatile(datalen, ConsumePrefix(c.buffers, count, 0)))

(* split_at, lines 77-85: position of the slice holding the offset *)
RECURSIVE SplitPos(_, _, _)
SplitPos(buffers, remain, i) ==
    IF i > Len(buffers) THEN [at |-> 0, remain |-> remain]
    ELSE IF remain < buffers[i] THEN [at |-> i, remain |-> remain]
    ELSE SplitPos(buffers, remain - buffers[i], i + 1)

(* split_at(offset): [ok, self, other] *)
SplitAt(c, offset) ==
    LET pos == SplitPos(c.buffers, offset, 1)
    IN IF pos.at # 0
       THEN LET keep == SubSeq(c.buffers, 1, pos.at - 1)
                other == SubSeq(c.buffers, pos.at, Len(c.buffers))
            IN IF pos.remain > 0
               THEN [ok |-> TRUE,
                     self |-> [c EXCEPT !.buffers = Append(keep, pos.remain)],
                     other |-> NewConsumer(<<Head(other) - pos.remain>> \o Tail(other))]
               ELSE [ok |-> TRUE,
                     self |-> [c EXCEPT !.buffers = keep],
                     other |-> NewConsumer(other)]
       ELSE IF pos.remain = 0
            THEN [ok |-> TRUE, self |-> c, other |-> NewConsumer(<<>>)]
            ELSE [ok |-> FALSE, self |-> c, other |-> NewConsumer(<<>>)]

(* ------------------------- storage backend ----------------------------- *)
(* The opendal Operator behind self.core: objects keyed by the normalised *)
(* path (opendal drops empty path segments), each [mode, len].  The root   *)
(* is the empty sequence.  A call numbered i fails when inject = i.        *)
NameChars == {"a", "d"}
NameOrder == <<"a", "d">>

Normalize(path) == SelectSeq(path, LAMBDA t : t # "/")
ParentOf(np) == SubSeq(np, 1, Len(np) - 1)

InitialBackend ==
    (<<>> :> [mode |-> "DIR", len |-> 0])
    @@ (<<"a">> :> [mode |-> "FILE", len |-> 2])
    @@ (<<"d">> :> [mode |-> "DIR", len |-> 0])
    @@ (<<"d", "a">> :> [mode |-> "FILE", len |-> 1])

IsDirIn(b, np) == np \in DOMAIN b /\ b[np].mode = "DIR"
HasChildren(b, np) == \E q \in DOMAIN b : Len(q) = Len(np) + 1 /\ ParentOf(q) = np

(* core.stat(path) *)
BackendStat(b, path, fail) ==
    LET np == Normalize(path)
    IN IF fail \/ np \notin DOMAIN b THEN [ok |-> FALSE, mode |-> "", len |-> 0]
       ELSE [ok |-> TRUE, mode |-> b[np].mode, len |-> b[np].len]

(* core.list(path): the direct children in name order; a directory is     *)
(* listed with a trailing slash                                           *)
RECURSIVE ListFrom(_, _, _)
ListFrom(b, np, i) ==
    IF i > Len(NameOrder) THEN <<>>
    ELSE LET q == Append(np, NameOrder[i])
         IN IF q \in DOMAIN b
            THEN <<[name |-> IF b[q].mode = "DIR" THEN <<NameOrder[i], "/">>
                                                   ELSE <<NameOrder[i]>>,
                    mode |-> b[q].mode, len |-> b[q].len]>>
                 \o ListFrom(b, np, i + 1)
            ELSE ListFrom(b, np, i + 1)

BackendList(b, path, fail) ==
    LET np == Normalize(path)
    IN IF fail \/ np \notin DOMAIN b THEN [ok |-> FALSE, entries |-> <<>>]
       ELSE IF b[np].mode # "DIR" THEN [ok |-> TRUE, entries |-> <<>>]
       ELSE [ok |-> TRUE, entries |-> ListFrom(b, np, 1)]

(* core.read_with(path).range(offset..): length of the bytes returned *)
BackendRead(b, path, offset, fail) ==
    LET np == Normalize(path)
    IN IF fail \/ np \notin DOMAIN b \/ b[np].mode = "DIR"
       THEN [ok |-> FALSE, len |-> 0]
       ELSE [ok |-> TRUE, len |-> IF offset < b[np].len THEN b[np].len - offset ELSE 0]

(* core.writer_with(path).append(is_append): opens (creates, and truncates *)
(* unless appending) the object                                            *)
BackendOpenWriter(b, path, is_append, fail) ==
    LET np == Normalize(path)
    IN IF fail \/ np = <<>> \/ IsDirIn(b, np) \/ ~IsDirIn(b, ParentOf(np))
       THEN [ok |-> FALSE, b |-> b]
       ELSE IF is_append /\ np \in DOMAIN b THEN [ok |-> TRUE, b |-> b]
       ELSE [ok |-> TRUE, b |-> (np :> [mode |-> "FILE", len |-> 0]) @@ b]

(* writer.write_from(data): appends to the object if it still exists *)
BackendWriteFrom(b, path, datalen, fail) ==
    LET np == Normalize(path)
    IN IF fail THEN [ok |-> FALSE, b |-> b]
       ELSE IF np \in DOMAIN b /\ b[np].mode = "FILE"
            THEN [ok |-> TRUE, b |-> [b EXCEPT ![np].len = @ + datalen]]
            ELSE [ok |-> TRUE, b |-> b]

(* core.create_dir(path) *)
BackendCreateDir(b, path, fail) ==
    LET np == Normalize(path)
    IN IF fail \/ (np \in DOMAIN b /\ b[np].mode = "FILE") \/ ~IsDirIn(b, ParentOf(np))
       THEN [ok |-> FALSE, b |-> b]
       ELSE IF np \in DOMAIN b THEN [ok |-> TRUE, b |-> b]
       ELSE [ok |-> TRUE, b |-> (np :> [mode |-> "DIR", len |-> 0]) @@ b]

(* core.delete(path): deleting an absent object succeeds *)
BackendDelete(b, path, fail) ==
    LET np == Normalize(path)
    IN IF fail \/ np = <<>> \/ HasChildren(b, np) THEN [ok |-> FALSE, b |-> b]
       ELSE [ok |-> TRUE, b |-> [q \in (DOMAIN b) \ {np} |-> b[q]]]

(* core.info().full_capability() of the Fs service main.rs builds *)
FsCapability == [write |-> TRUE, write_can_append |-> TRUE]

(* --------------------- filesystem.rs: state ---------------------------- *)
(* The state a handler works on: s.f the slab opened_files (slot k is     *)
(* s.f[k+1]), s.m opened_files_map, s.w opened_files_writer, s.b backend. *)
SlabHas(f, k) == k \in 0 .. (Len(f) - 1)
SlabGet(f, k) == f[k + 1]

(* Slab::insert: the key of the new entry is the next free index *)
SlabInsert(f, rec) == [f |-> Append(f, rec), inode |-> Len(f)]

(* OpenedFile::new keeps the path; metadata.ino is zeroed *)
OpenedFileNew(file_type, path) ==
    [path |-> path, ino |-> 0, mode |-> file_type, size |-> 0]

(* what the slab stores of an OpenedFile *)
Stored(of) == [path |-> of.path, ino |-> of.ino]

(* --------------------- filesystem.rs: replies -------------------------- *)
(* A reply: kind "ok" (OutHeader.error = 0), "err" (error header), "none" *)
(* (Ok(0), nothing written), "fail" (handle_message returned Err) or      *)
(* "panic".  error is OutHeader.error, len OutHeader.len, used the value  *)
(* returned to the event loop, written the bytes put in the writable      *)
(* chain.  nodeid, ino, size are -1 when the reply has no such field;     *)
(* major, minor, max_write and flags are those of InitOut, -1 otherwise.   *)
Rep0 == [kind |-> "none", error |-> 0, unique |-> 0, len |-> 0, used |-> 0,
         written |-> 0, nodeid |-> -1, ino |-> -1, size |-> -1, mode |-> "",
         dirents |-> <<>>, wsize |-> -1,
         major |-> -1, minor |-> -1, max_write |-> -1, flags |-> -1]

RepFail == [Rep0 EXCEPT !.kind = "fail"]
RepPanic == [Rep0 EXCEPT !.kind = "panic"]

(* the result of a handler: new state, reply, the path the request        *)
(* resolved to, the branch taken, the length of the staged write data     *)
Res(s, rep, path, cause, datalen) ==
    [s |-> s, rep |-> rep, path |-> path, cause |-> cause, datalen |-> datalen]

(* consecutive write_all calls, each followed by ?: the first failure     *)
(* ends the sequence                                                      *)
RECURSIVE WriteAll(_, _)
WriteAllThen(r, rest) == IF r.ok THEN WriteAll(r.c, rest) ELSE r

WriteAll(c, sizes) ==
    IF sizes = <<>> THEN [ok |-> TRUE, c |-> c]
    ELSE WriteAllThen(ExactIo(c, Head(sizes)), Tail(sizes))

(* the value a reply function returns once its writes r are done *)
ReplyWritten(r, rep) ==
    IF r.ok THEN [rep EXCEPT !.used = r.c.bytes_consumed,
                             !.written = r.c.bytes_consumed]
    ELSE RepFail

(* reply_ok that leaves the OutHeader out of OutHeader.len *)
reply_ok_len_of_body(outsz, datasz, unique, w, fields) ==
    ReplyWritten(WriteAll(w, <<SizeOutHeader, outsz, datasz>>),
            fields @@ [Rep0 EXCEPT !.kind = "ok", !.error = 0, !.unique = unique,
                                   !.len = outsz + datasz])

(* reply_ok(out, data, unique, w): outsz = size_of::<T>() or 0, datasz =  *)
(* data.len() or 0; fields are the decoded contents of the reply          *)
reply_ok(outsz, datasz, unique, w, fields) ==
    ReplyWritten(WriteAll(w, <<SizeOutHeader, outsz, datasz>>),
            fields @@ [Rep0 EXCEPT !.kind = "ok", !.error = 0, !.unique = unique,
                                   !.len = SizeOutHeader + outsz + datasz])

(* reply_error(unique, w, error) *)
(* reply_error that stores the errno as it is *)
reply_error_not_negated(unique, w, error) ==
    ReplyWritten(WriteAll(w, <<SizeOutHeader>>),
                 [Rep0 EXCEPT !.kind = "err", !.error = error, !.unique = unique,
                              !.len = SizeOutHeader])

reply_error(unique, w, error) ==
    ReplyWritten(WriteAll(w, <<SizeOutHeader>>),
            [Rep0 EXCEPT !.kind = "err", !.error = -error, !.unique = unique,
                         !.len = SizeOutHeader])

(* the bytes of a name that are not characters of a path *)
NUL == "NUL"
NonUtf8 == "xFF"

(* bytes_to_str: CStr::from_bytes_with_nul wants exactly one NUL, at the  *)
(* end; to_str wants UTF-8                                                 *)
bytes_to_str(buf) ==
    IF Len(buf) >= 1 /\ buf[Len(buf)] = NUL
       /\ \A i \in 1 .. (Len(buf) - 1) : buf[i] # NUL /\ buf[i] # NonUtf8
    THEN [ok |-> TRUE, name |-> SubSeq(buf, 1, Len(buf) - 1)]
    ELSE [ok |-> FALSE, name |-> <<>>]

(* the name decoding shared by lookup, create, unlink, mkdir, rmdir:      *)
(* name_len = in_header.len - size_of::<InHeader>() - fixed (a usize       *)
(* subtraction that underflows into a panic), read_exact, bytes_to_str    *)
ReadName(h, r, fixed) ==
    LET name_len == h.len - SizeInHeader - fixed
    IN IF name_len < 0 THEN [st |-> "panic", name |-> <<>>]
       ELSE LET rd == ExactIo(r, name_len)
            IN IF ~rd.ok THEN [st |-> "fail", name |-> <<>>]
               ELSE LET cs == bytes_to_str(SubSeq(h.payload, 1, name_len))
                    IN IF cs.ok THEN [st |-> "ok", name |-> cs.name]
                       ELSE [st |-> "badname", name |-> <<>>]

(* check_flags *)
check_flags(cap, flags) ==
    LET is_trunc == HasBit(flags, O_TRUNC) \/ HasBit(flags, O_CREAT)
        is_append == HasBit(flags, O_APPEND)
        mode == flags % (O_ACCMODE + 1)
        is_write == mode = O_WRONLY \/ mode = O_RDWR \/ is_append
    IN IF is_trunc /\ ~cap.write THEN [ok |-> FALSE, is_write |-> FALSE, is_append |-> FALSE]
       ELSE IF is_append /\ ~cap.write_can_append
            THEN [ok |-> FALSE, is_write |-> FALSE, is_append |-> FALSE]
       ELSE [ok |-> TRUE, is_write |-> is_write, is_append |-> is_append]

(* ----------------------------- error.rs -------------------------------- *)
(* the opendal::ErrorKind values that have an arm of their own *)
ErrorKinds == {"Unsupported", "IsADirectory", "NotFound", "PermissionDenied",
               "AlreadyExists", "NotADirectory", "RangeNotSatisfied",
               "RateLimited"}

(* impl From<opendal::Error> for Error: the errno whose strerror text the  *)
(* Error carries; any other kind falls to the last arm                     *)
ErrorFrom(kind) ==
    IF kind = "Unsupported" THEN EOPNOTSUPP
    ELSE IF kind = "IsADirectory" THEN EISDIR
    ELSE IF kind = "NotFound" THEN ENOENT
    ELSE IF kind = "PermissionDenied" THEN EACCES
    ELSE IF kind = "AlreadyExists" THEN EEXIST
    ELSE IF kind = "NotADirectory" THEN ENOTDIR
    ELSE IF kind = "RangeNotSatisfied" THEN EINVAL
    ELSE IF kind = "RateLimited" THEN EBUSY
    ELSE ENOENT

(* ------------------ filesystem.rs: backend wrappers -------------------- *)
(* do_get_metadata that leaves the ino of an already mapped path at the   *)
(* zero of OpenedFile::new                                                *)
do_get_metadata_ino_unset(s, path, fail) ==
    LET md == BackendStat(s.b, path, fail)
        attr == [OpenedFileNew(md.mode, path) EXCEPT !.size = md.len]
    IN IF ~md.ok THEN [ok |-> FALSE, s |-> s, attr |-> attr]
       ELSE IF path \in DOMAIN s.m
            THEN [ok |-> TRUE, s |-> s, attr |-> attr]
            ELSE LET ins == SlabInsert(s.f, Stored(attr))
                 IN [ok |-> TRUE,
                     s |-> [s EXCEPT !.f = ins.f, !.m = MapInsert(s.m, path, ins.inode)],
                     attr |-> [attr EXCEPT !.ino = ins.inode]]

(* do_get_metadata: the attributes carry the ino of the path map, or of a *)
(* newly inserted slot                                                    *)
do_get_metadata(s, path, fail) ==
    LET md == BackendStat(s.b, path, fail)
        attr == [OpenedFileNew(md.mode, path) EXCEPT !.size = md.len]
    IN IF ~md.ok THEN [ok |-> FALSE, s |-> s, attr |-> attr]
       ELSE IF path \in DOMAIN s.m
            THEN [ok |-> TRUE, s |-> s, attr |-> [attr EXCEPT !.ino = s.m[path]]]
            ELSE LET ins == SlabInsert(s.f, Stored(attr))
                 IN [ok |-> TRUE,
                     s |-> [s EXCEPT !.f = ins.f, !.m = MapInsert(s.m, path, ins.inode)],
                     attr |-> [attr EXCEPT !.ino = ins.inode]]

(* do_set_writer that starts every writer at 0 *)
do_set_writer_from_zero(s, cap, path, flags, inject) ==
    LET cf == check_flags(cap, flags)
        ow == BackendOpenWriter(s.b, path, cf.is_append, inject = 1)
        st == BackendStat(ow.b, path, inject = 2)
    IN IF ~cf.ok THEN [ok |-> FALSE, s |-> s, cause |-> "flags"]
       ELSE IF ~cf.is_write THEN [ok |-> TRUE, s |-> s, cause |-> ""]
       ELSE IF ~ow.ok THEN [ok |-> FALSE, s |-> s, cause |-> "backend"]
       ELSE IF cf.is_append /\ ~st.ok
            THEN [ok |-> FALSE, s |-> [s EXCEPT !.b = ow.b], cause |-> "backend"]
       ELSE [ok |-> TRUE,
             s |-> [s EXCEPT !.b = ow.b,
                             !.w = MapInsert(s.w, path, [written |-> 0])],
             cause |-> ""]

(* do_set_writer *)
do_set_writer(s, cap, path, flags, inject) ==
    LET cf == check_flags(cap, flags)
        ow == BackendOpenWriter(s.b, path, cf.is_append, inject = 1)
        st == BackendStat(ow.b, path, inject = 2)
        written == IF cf.is_append THEN st.len ELSE 0
    IN IF ~cf.ok THEN [ok |-> FALSE, s |-> s, cause |-> "flags"]
       ELSE IF ~cf.is_write THEN [ok |-> TRUE, s |-> s, cause |-> ""]
       ELSE IF ~ow.ok THEN [ok |-> FALSE, s |-> s, cause |-> "backend"]
       ELSE IF cf.is_append /\ ~st.ok
            THEN [ok |-> FALSE, s |-> [s EXCEPT !.b = ow.b], cause |-> "backend"]
       ELSE [ok |-> TRUE,
             s |-> [s EXCEPT !.b = ow.b,
                             !.w = MapInsert(s.w, path, [written |-> written])],
             cause |-> ""]

(* do_delete *)
do_delete(s, path, fail) ==
    LET d == BackendDelete(s.b, path, fail)
    IN [ok |-> d.ok, s |-> [s EXCEPT !.b = d.b]]

(* do_read: the length of the data returned *)
do_read(s, path, offset, fail) == BackendRead(s.b, path, offset, fail)

(* do_write that leaves the cursor where it was *)
do_write_no_advance(s, path, offset, datalen, fail) ==
    IF path \notin DOMAIN s.w THEN [ok |-> FALSE, s |-> s, cause |-> "nowriter"]
    ELSE IF offset # s.w[path].written THEN [ok |-> FALSE, s |-> s, cause |-> "offset"]
    ELSE LET wf == BackendWriteFrom(s.b, path, datalen, fail)
         IN IF ~wf.ok THEN [ok |-> FALSE, s |-> s, cause |-> "backend"]
            ELSE [ok |-> TRUE, s |-> [s EXCEPT !.b = wf.b], cause |-> ""]

(* do_write that takes any offset *)
do_write_any_offset(s, path, offset, datalen, fail) ==
    IF path \notin DOMAIN s.w THEN [ok |-> FALSE, s |-> s, cause |-> "nowriter"]
    ELSE LET wf == BackendWriteFrom(s.b, path, datalen, fail)
         IN IF ~wf.ok THEN [ok |-> FALSE, s |-> s, cause |-> "backend"]
            ELSE [ok |-> TRUE,
                  s |-> [s EXCEPT !.b = wf.b, !.w[path].written = @ + datalen],
                  cause |-> ""]

(* do_write *)
do_write(s, path, offset, datalen, fail) ==
    IF path \notin DOMAIN s.w THEN [ok |-> FALSE, s |-> s, cause |-> "nowriter"]
    ELSE IF offset # s.w[path].written THEN [ok |-> FALSE, s |-> s, cause |-> "offset"]
    ELSE LET wf == BackendWriteFrom(s.b, path, datalen, fail)
         IN IF ~wf.ok THEN [ok |-> FALSE, s |-> s, cause |-> "backend"]
            ELSE [ok |-> TRUE,
                  s |-> [s EXCEPT !.b = wf.b, !.w[path].written = @ + datalen],
                  cause |-> ""]

(* do_create_dir *)
do_create_dir(s, path, fail) ==
    LET p == IF path[Len(path)] # "/" THEN Append(path, "/") ELSE path
        cd == BackendCreateDir(s.b, p, fail)
    IN [ok |-> cd.ok, s |-> [s EXCEPT !.b = cd.b]]

(* DirEntry whose off counts from 0 *)
DirEntryOfZeroBased(e, i, inode) ==
    [ino |-> inode, off |-> i - 1,
     type_ |-> IF e.mode = "DIR" THEN DEAFULT_DIR_TYPE_IN_DIR_ENTRY
               ELSE DEAFULT_FILE_TYPE_IN_DIR_ENTRY,
     name |-> IF e.name[Len(e.name)] = "/"
              THEN SubSeq(e.name, 1, Len(e.name) - 1) ELSE e.name]

(* do_readdir, the DirEntry built by the closure for entry i of the     *)
(* listing, given its inode                                               *)
DirEntryOf(e, i, inode) ==
    [ino |-> inode, off |-> i,
     type_ |-> IF e.mode = "DIR" THEN DEAFULT_DIR_TYPE_IN_DIR_ENTRY
               ELSE DEAFULT_FILE_TYPE_IN_DIR_ENTRY,
     name |-> IF e.name[Len(e.name)] = "/"
              THEN SubSeq(e.name, 1, Len(e.name) - 1) ELSE e.name]

(* do_readdir, the closure over the listing: entries i .. Len(ents); the  *)
(* path of an entry is looked up in the path map, or given a new slot     *)
RECURSIVE ReaddirEntries(_, _, _, _)
ReaddirCons(entry, rest) ==
    [s |-> rest.s, entries |-> <<entry>> \o rest.entries]

ReaddirInsert(s, path, ents, i, epath, ins) ==
    ReaddirCons(DirEntryOf(ents[i], i, ins.inode),
                ReaddirEntries([s EXCEPT !.f = ins.f,
                                         !.m = MapInsert(s.m, epath, ins.inode)],
                               path, ents, i + 1))

ReaddirEntry(s, path, ents, i, epath) ==
    IF epath \in DOMAIN s.m
    THEN ReaddirCons(DirEntryOf(ents[i], i, s.m[epath]),
                     ReaddirEntries(s, path, ents, i + 1))
    ELSE ReaddirInsert(s, path, ents, i, epath,
                       SlabInsert(s.f, Stored([OpenedFileNew(ents[i].mode, epath)
                                                 EXCEPT !.size = ents[i].len])))

ReaddirEntries(s, path, ents, i) ==
    IF i > Len(ents) THEN [s |-> s, entries |-> <<>>]
    ELSE ReaddirEntry(s, path, ents, i, path \o <<"/">> \o ents[i].name)

DoReaddirListed(s, p, ls) ==
    IF ~ls.ok THEN [ok |-> FALSE, s |-> s, entries |-> <<>>]
    ELSE [ok |-> TRUE] @@ ReaddirEntries(s, p, ls.entries, 1)

DoReaddirAt(s, p, fail) == DoReaddirListed(s, p, BackendList(s.b, p, fail))

do_readdir(s, path, fail) ==
    DoReaddirAt(s, IF path[Len(path)] # "/" THEN Append(path, "/") ELSE path, fail)

(* reply_add_dir_entry: DirEntryOut, the name, the padding to 8 bytes *)
DirEntryLen(entry) == ((SizeDirEntryOut + Len(entry.name) + 7) \div 8) * 8

DirEntryWritten(r, total_len) ==
    [ok |-> r.ok, c |-> r.c, len |-> IF r.ok THEN total_len ELSE 0]

reply_add_dir_entry(cursor, entry) ==
    DirEntryWritten(WriteAll(cursor,
                             <<SizeDirEntryOut, Len(entry.name),
                               DirEntryLen(entry) - SizeDirEntryOut - Len(entry.name)>>),
                    DirEntryLen(entry))

(* -------------------- filesystem.rs: handlers -------------------------- *)
(* Each handler takes the state s, the request h (the decoded fields of   *)
(* the chain), the Reader r positioned after InHeader and the Writer w.    *)
EntryFields(attr) ==
    [nodeid |-> attr.ino, ino |-> attr.ino, size |-> attr.size, mode |-> attr.mode]

(* InitOut { major: KERNEL_VERSION, minor: KERNEL_MINOR_VERSION,           *)
(* max_write: MAX_BUFFER_SIZE, ..Default::default() }                      *)
InitOut ==
    [major |-> KERNEL_VERSION, minor |-> KERNEL_MINOR_VERSION,
     max_write |-> MAX_BUFFER_SIZE, flags |-> 0]

(* init that checks the major version only *)
init_any_minor(s, h, r, w) ==
    LET ro == ReadObj(r, SizeInitIn)
        root == [OpenedFileNew("DIR", <<"/">>) EXCEPT !.ino = DEFAULT_ROOT_DIR_INODE]
        i1 == SlabInsert(s.f, Stored(root))
        i2 == SlabInsert(i1.f, Stored(root))
        s1 == [s EXCEPT !.f = i2.f,
                        !.m = MapInsert(s.m, <<"/">>, DEFAULT_ROOT_DIR_INODE)]
    IN IF ~ro.ok THEN Res(s, RepFail, <<>>, "decode", 0)
       ELSE IF h.major # KERNEL_VERSION
            THEN Res(s, reply_error(h.unique, w, EIO), <<>>, "version", 0)
       ELSE Res(s1, reply_ok(SizeInitOut, 0, h.unique, w, InitOut), <<>>, "", 0)

(* init that inserts the root once, not twice *)
init_once(s, h, r, w) ==
    LET ro == ReadObj(r, SizeInitIn)
        root == [OpenedFileNew("DIR", <<"/">>) EXCEPT !.ino = DEFAULT_ROOT_DIR_INODE]
        i1 == SlabInsert(s.f, Stored(root))
        s1 == [s EXCEPT !.f = i1.f,
                        !.m = MapInsert(s.m, <<"/">>, DEFAULT_ROOT_DIR_INODE)]
    IN IF ~ro.ok THEN Res(s, RepFail, <<>>, "decode", 0)
       ELSE IF h.major # KERNEL_VERSION \/ h.minor < MIN_KERNEL_MINOR_VERSION
            THEN Res(s, reply_error(h.unique, w, EIO), <<>>, "version", 0)
       ELSE Res(s1, reply_ok(SizeInitOut, 0, h.unique, w, InitOut), <<>>, "", 0)

init(s, h, r, w) ==
    LET ro == ReadObj(r, SizeInitIn)
        root == [OpenedFileNew("DIR", <<"/">>) EXCEPT !.ino = DEFAULT_ROOT_DIR_INODE]
        i1 == SlabInsert(s.f, Stored(root))
        i2 == SlabInsert(i1.f, Stored(root))
        s1 == [s EXCEPT !.f = i2.f,
                        !.m = MapInsert(s.m, <<"/">>, DEFAULT_ROOT_DIR_INODE)]
    IN IF ~ro.ok THEN Res(s, RepFail, <<>>, "decode", 0)
       ELSE IF h.major # KERNEL_VERSION \/ h.minor < MIN_KERNEL_MINOR_VERSION
            THEN Res(s, reply_error(h.unique, w, EIO), <<>>, "version", 0)
       ELSE Res(s1, reply_ok(SizeInitOut, 0, h.unique, w, InitOut), <<>>, "", 0)

destory(s) == Res(s, Rep0, <<>>, "", 0)

forget(s, h) == Res(s, Rep0, <<>>, "", 0)

(* the early returns shared by lookup, create, unlink, mkdir and rmdir:   *)
(* the name cannot be read or decoded, or the parent is not in the slab   *)
NoName(s, h, w, nm) ==
    IF nm.st = "panic" THEN Res(s, RepPanic, <<>>, "decode", 0)
    ELSE IF nm.st = "fail" THEN Res(s, RepFail, <<>>, "decode", 0)
    ELSE IF nm.st = "badname"
         THEN Res(s, reply_error(h.unique, w, EIO), <<>>, "badname", 0)
    ELSE Res(s, reply_error(h.unique, w, ENOENT), <<>>, "noinode", 0)

Resolved(s, h, nm) == nm.st = "ok" /\ SlabHas(s.f, h.nodeid)

(* format!("{}/{}", parent_path, name) *)
ChildPath(s, h, nm) == SlabGet(s.f, h.nodeid).path \o <<"/">> \o nm.name

(* lookup, lines 216-223 *)
LookupStat(s, h, w, path, md) ==
    IF ~md.ok THEN Res(s, reply_error(h.unique, w, ENOENT), path, "backend", 0)
    ELSE Res(md.s, reply_ok(SizeEntryOut, 0, h.unique, w, EntryFields(md.attr)),
             path, "", 0)

LookupPath(s, h, w, path) ==
    LookupStat(s, h, w, path, do_get_metadata(s, path, h.inject = 1))

LookupName(s, h, w, nm) ==
    IF ~Resolved(s, h, nm) THEN NoName(s, h, w, nm)
    ELSE LookupPath(s, h, w, ChildPath(s, h, nm))

lookup(s, h, r, w) == LookupName(s, h, w, ReadName(h, r, 0))

(* getattr, lines 236-249 *)
GetattrStat(s, h, w, path, md) ==
    IF ~md.ok THEN Res(s, reply_error(h.unique, w, ENOENT), path, "backend", 0)
    ELSE Res(md.s,
             reply_ok(SizeAttrOut, 0, h.unique, w,
                      [ino |-> md.attr.ino, size |-> md.attr.size,
                       mode |-> md.attr.mode]),
             path, "", 0)

GetattrPath(s, h, w, path) ==
    GetattrStat(s, h, w, path, do_get_metadata(s, path, h.inject = 1))

getattr(s, h, r, w) ==
    IF ~SlabHas(s.f, h.nodeid)
    THEN Res(s, reply_error(h.unique, w, ENOENT), <<>>, "noinode", 0)
    ELSE GetattrPath(s, h, w, SlabGet(s.f, h.nodeid).path)

setattr(s, h, r, w) == getattr(s, h, r, w)

(* create, lines 296-316: the writer is set after the slot ins of the    *)
(* new file is in the slab and in the path map                            *)
CreateWriter(h, w, path, ins, sw) ==
    IF ~sw.ok THEN Res(sw.s, reply_error(h.unique, w, ENOENT), path, sw.cause, 0)
    ELSE Res(sw.s,
             reply_ok(SizeEntryOut, SizeOpenOut, h.unique, w,
                      EntryFields([OpenedFileNew("FILE", path) EXCEPT !.ino = ins.inode])),
             path, "", 0)

(* create, lines 289-300 *)
CreateSlot(s, cap, h, w, path, ins) ==
    CreateWriter(h, w, path, ins,
                 do_set_writer([s EXCEPT !.f = ins.f,
                                         !.m = MapInsert(s.m, path, ins.inode)],
                               cap, path, h.flags, h.inject))

CreatePath(s, cap, h, w, path) ==
    CreateSlot(s, cap, h, w, path,
               SlabInsert(s.f, Stored(OpenedFileNew("FILE", path))))

CreateName(s, cap, h, w, nm) ==
    IF ~Resolved(s, h, nm) THEN NoName(s, h, w, nm)
    ELSE CreatePath(s, cap, h, w, ChildPath(s, h, nm))

CreateRead(s, cap, h, w, ro) ==
    IF ~ro.ok THEN Res(s, RepFail, <<>>, "decode", 0)
    ELSE CreateName(s, cap, h, w, ReadName(h, ro.c, SizeCreateIn))

create(s, cap, h, r, w) == CreateRead(s, cap, h, w, ReadObj(r, SizeCreateIn))

(* unlink that also vacates the slot the path map names for the path *)
UnlinkDeletedFreesSlot(s, h, w, path, d) ==
    IF ~d.ok THEN Res(s, reply_error(h.unique, w, ENOENT), path, "backend", 0)
    ELSE Res([d.s EXCEPT !.m = MapRemove(d.s.m, path),
                         !.f = [i \in 1 .. Len(d.s.f) |->
                                  IF path \in DOMAIN d.s.m /\ i = d.s.m[path] + 1
                                  THEN [d.s.f[i] EXCEPT !.path = <<>>]
                                  ELSE d.s.f[i]]],
             reply_ok(0, 0, h.unique, w, <<>>), path, "", 0)

(* unlink that leaves the path in the path map *)
UnlinkDeletedKeepsEntry(s, h, w, path, d) ==
    IF ~d.ok THEN Res(s, reply_error(h.unique, w, ENOENT), path, "backend", 0)
    ELSE Res(d.s, reply_ok(0, 0, h.unique, w, <<>>), path, "", 0)

(* unlink, lines 342-347 *)
UnlinkDeleted(s, h, w, path, d) ==
    IF ~d.ok THEN Res(s, reply_error(h.unique, w, ENOENT), path, "backend", 0)
    ELSE Res([d.s EXCEPT !.m = MapRemove(d.s.m, path)],
             reply_ok(0, 0, h.unique, w, <<>>), path, "", 0)

UnlinkPath(s, h, w, path) ==
    UnlinkDeleted(s, h, w, path, do_delete(s, path, h.inject = 1))

UnlinkName(s, h, w, nm) ==
    IF ~Resolved(s, h, nm) THEN NoName(s, h, w, nm)
    ELSE UnlinkPath(s, h, w, ChildPath(s, h, nm))

unlink(s, h, r, w) == UnlinkName(s, h, w, ReadName(h, r, 0))

rmdir(s, h, r, w) == unlink(s, h, r, w)

(* release that leaves the writer in the registry *)
release_keeps_writer(s, h, r, w) ==
    LET path == SlabGet(s.f, h.nodeid).path
    IN IF ~SlabHas(s.f, h.nodeid)
       THEN Res(s, reply_error(h.unique, w, ENOENT), <<>>, "noinode", 0)
       ELSE Res(s, reply_ok(0, 0, h.unique, w, <<>>), path, "", 0)

release(s, h, r, w) ==
    LET path == SlabGet(s.f, h.nodeid).path
    IN IF ~SlabHas(s.f, h.nodeid)
       THEN Res(s, reply_error(h.unique, w, ENOENT), <<>>, "noinode", 0)
       ELSE Res([s EXCEPT !.w = MapRemove(s.w, path)],
                reply_ok(0, 0, h.unique, w, <<>>), path, "", 0)

flush(s, h, r, w) ==
    IF ~SlabHas(s.f, h.nodeid)
    THEN Res(s, reply_error(h.unique, w, ENOENT), <<>>, "noinode", 0)
    ELSE Res(s, reply_ok(0, 0, h.unique, w, <<>>), <<>>, "", 0)

releasedir(s, h, r, w) == flush(s, h, r, w)

fsyncdir(s, h, r, w) == flush(s, h, r, w)

opendir(s, h, r, w) ==
    IF ~SlabHas(s.f, h.nodeid)
    THEN Res(s, reply_error(h.unique, w, ENOENT), <<>>, "noinode", 0)
    ELSE Res(s, reply_ok(SizeOpenOut, 0, h.unique, w, <<>>), <<>>, "", 0)

(* open, lines 392-400 *)
OpenWriter(h, w, path, sw) ==
    IF ~sw.ok THEN Res(sw.s, reply_error(h.unique, w, ENOENT), path, sw.cause, 0)
    ELSE Res(sw.s, reply_ok(SizeOpenOut, 0, h.unique, w, <<>>), path, "", 0)

OpenPath(s, cap, h, w, path) ==
    OpenWriter(h, w, path, do_set_writer(s, cap, path, h.flags, h.inject))

open(s, cap, h, r, w) ==
    IF ~ReadObj(r, SizeOpenIn).ok THEN Res(s, RepFail, <<>>, "decode", 0)
    ELSE IF ~SlabHas(s.f, h.nodeid)
         THEN Res(s, reply_error(h.unique, w, ENOENT), <<>>, "noinode", 0)
    ELSE OpenPath(s, cap, h, w, SlabGet(s.f, h.nodeid).path)

(* read, lines 429-439: data of len bytes goes through data_writer, then *)
(* the header through w                                                   *)
ReadData(s, h, path, len, hw, wf) ==
    IF ~hw.ok THEN Res(s, RepFail, path, "reply", len)
    ELSE Res(s,
             [Rep0 EXCEPT !.kind = "ok", !.unique = h.unique,
                          !.len = SizeOutHeader + len,
                          !.used = SizeOutHeader + len,
                          !.written = hw.c.bytes_consumed + wf.c.bytes_consumed],
             path, "", len)

ReadSplit(s, h, path, len, sp) ==
    IF ~sp.ok THEN Res(s, RepPanic, path, "split", len)
    ELSE ReadData(s, h, path, len, ExactIo(sp.self, SizeOutHeader),
                  WriteFromAt(sp.other, len, len))

(* read, lines 416-427 *)
ReadPath(s, h, w, path, data) ==
    IF ~data.ok THEN Res(s, reply_error(h.unique, w, ENOENT), path, "backend", 0)
    ELSE ReadSplit(s, h, path, data.len, SplitAt(w, SizeOutHeader))

read(s, h, r, w) ==
    IF ~ReadObj(r, SizeReadIn).ok THEN Res(s, RepFail, <<>>, "decode", 0)
    ELSE IF ~SlabHas(s.f, h.nodeid)
         THEN Res(s, reply_error(h.unique, w, ENOENT), <<>>, "noinode", 0)
    ELSE ReadPath(s, h, w, SlabGet(s.f, h.nodeid).path,
                  do_read(s, SlabGet(s.f, h.nodeid).path, h.offset, h.inject = 1))

(* write, lines 466-473 *)
WriteDone(s, h, w, path, datalen, dw) ==
    IF ~dw.ok THEN Res(s, reply_error(h.unique, w, EIO), path, dw.cause, datalen)
    ELSE Res(dw.s, reply_ok(SizeWriteOut, 0, h.unique, w, [wsize |-> h.size]),
             path, "", datalen)

(* write, lines 462-466: rt is the outcome of read_to_at *)
WriteData(s, h, w, path, rt) ==
    WriteDone(s, h, w, path, rt.n, do_write(s, path, h.offset, rt.n, h.inject = 1))

WriteRead(s, h, w, ro) ==
    IF ~ro.ok THEN Res(s, RepFail, <<>>, "decode", 0)
    ELSE IF ~SlabHas(s.f, h.nodeid)
         THEN Res(s, reply_error(h.unique, w, ENOENT), <<>>, "noinode", 0)
    ELSE WriteData(s, h, w, SlabGet(s.f, h.nodeid).path, ReadToAt(ro.c, h.size))

write(s, h, r, w) == WriteRead(s, h, w, ReadObj(r, SizeWriteIn))

(* mkdir, lines 513-521: s1 holds the slot ins of the new directory *)
MkdirCreated(s1, h, w, path, ins, cd) ==
    IF ~cd.ok THEN Res(s1, reply_error(h.unique, w, ENOENT), path, "backend", 0)
    ELSE Res(cd.s,
             reply_ok(SizeEntryOut, 0, h.unique, w,
                      EntryFields([OpenedFileNew("DIR", path) EXCEPT !.ino = ins.inode])),
             path, "", 0)

MkdirSlot(s1, h, w, path, ins) ==
    MkdirCreated(s1, h, w, path, ins, do_create_dir(s1, path, h.inject = 1))

(* mkdir that records the inode one past the slot it allocated *)
MkdirInsertOneBased(s, h, w, path, ins) ==
    MkdirSlot([s EXCEPT !.f = ins.f, !.m = MapInsert(s.m, path, ins.inode + 1)],
              h, w, path, ins)

(* mkdir, lines 506-512 *)
MkdirInsert(s, h, w, path, ins) ==
    MkdirSlot([s EXCEPT !.f = ins.f, !.m = MapInsert(s.m, path, ins.inode)],
              h, w, path, ins)

MkdirPath(s, h, w, path) ==
    MkdirInsert(s, h, w, path, SlabInsert(s.f, Stored(OpenedFileNew("DIR", path))))

MkdirName(s, h, w, nm) ==
    IF ~Resolved(s, h, nm) THEN NoName(s, h, w, nm)
    ELSE MkdirPath(s, h, w, ChildPath(s, h, nm))

MkdirInRead(s, h, w, ro) ==
    IF ~ro.ok THEN Res(s, RepFail, <<>>, "decode", 0)
    ELSE MkdirName(s, h, w, ReadName(h, ro.c, SizeMkdirIn))

mkdir(s, h, r, w) == MkdirInRead(s, h, w, ReadObj(r, SizeMkdirIn))

(* readdir, lines 623-631: the entries written through data_writer *)
RECURSIVE AddDirEntries(_, _, _)
AddDirNext(a, rest, total_written) ==
    IF ~a.ok THEN [ok |-> FALSE, c |-> a.c, total |-> total_written]
    ELSE AddDirEntries(a.c, rest, total_written + a.len)

AddDirEntries(cursor, entries, total_written) ==
    IF entries = <<>> THEN [ok |-> TRUE, c |-> cursor, total |-> total_written]
    ELSE AddDirNext(reply_add_dir_entry(cursor, Head(entries)), Tail(entries),
                    total_written)

(* the OutHeader written last, by write_all on w, after data bytes *)
HeaderLast(hw, unique, len, data, fields) ==
    IF hw.ok
    THEN fields @@ [Rep0 EXCEPT !.kind = "ok", !.unique = unique, !.len = len,
                                !.used = len,
                                !.written = hw.c.bytes_consumed + data]
    ELSE RepFail

(* readdir, lines 623-641: w is the header part of the chain, ad the     *)
(* outcome of the loop over the entries                                   *)
AlsoWritten(rep, n) == IF rep.kind = "err" THEN [rep EXCEPT !.written = @ + n] ELSE rep

ReaddirEntriesOut(h, path, w, rd, ad) ==
    IF ~ad.ok
    THEN Res(rd.s, AlsoWritten(reply_error(h.unique, w, EIO), ad.c.bytes_consumed),
             path, "chain", 0)
    ELSE Res(rd.s,
             HeaderLast(ExactIo(w, SizeOutHeader), h.unique, SizeOutHeader + ad.total,
                        ad.c.bytes_consumed, [dirents |-> rd.entries]),
             path, "", 0)

(* readdir, lines 605-641 *)
ReaddirListed(s, h, path, sp, rd) ==
    IF ~rd.ok
    THEN Res(s, reply_error(h.unique, sp.self, ENOENT), path, "backend", 0)
    ELSE IF h.offset >= Len(rd.entries)
         THEN Res(rd.s,
                  HeaderLast(ExactIo(sp.self, SizeOutHeader), h.unique,
                             SizeOutHeader, 0, <<>>),
                  path, "", 0)
    ELSE ReaddirEntriesOut(h, path, sp.self, rd,
                           AddDirEntries(sp.other, rd.entries, 0))

ReaddirSplit(s, h, path, sp) ==
    IF ~sp.ok THEN Res(s, RepPanic, path, "split", 0)
    ELSE ReaddirListed(s, h, path, sp, do_readdir(s, path, h.inject = 1))

readdir(s, h, r, w) ==
    IF ~SlabHas(s.f, h.nodeid)
    THEN Res(s, reply_error(h.unique, w, ENOENT), <<>>, "noinode", 0)
    ELSE IF ~ReadObj(r, SizeReadIn).ok
         THEN Res(s, RepFail, SlabGet(s.f, h.nodeid).path, "decode", 0)
    ELSE ReaddirSplit(s, h, SlabGet(s.f, h.nodeid).path, SplitAt(w, SizeOutHeader))

(* handle_message *)
handle_message(s, cap, h, rbufs, wbufs) ==
    LET hr == ReadObj(NewConsumer(rbufs), SizeInHeader)
        r == hr.c
        w == NewConsumer(wbufs)
    IN IF ~hr.ok THEN Res(s, RepFail, <<>>, "decode", 0)
       ELSE IF h.len > MAX_BUFFER_SIZE + BUFFER_HEADER_SIZE
            THEN Res(s, reply_error(h.unique, w, EIO), <<>>, "toolarge", 0)
       ELSE IF h.opcode = OpInit THEN init(s, h, r, w)
       ELSE IF h.opcode = OpDestroy THEN destory(s)
       ELSE IF h.opcode = OpForget THEN forget(s, h)
       ELSE IF h.opcode = OpLookup THEN lookup(s, h, r, w)
       ELSE IF h.opcode = OpGetattr THEN getattr(s, h, r, w)
       ELSE IF h.opcode = OpSetattr THEN setattr(s, h, r, w)
       ELSE IF h.opcode = OpCreate THEN create(s, cap, h, r, w)
       ELSE IF h.opcode = OpUnlink THEN unlink(s, h, r, w)
       ELSE IF h.opcode = OpRelease THEN release(s, h, r, w)
       ELSE IF h.opcode = OpFlush THEN flush(s, h, r, w)
       ELSE IF h.opcode = OpOpen THEN open(s, cap, h, r, w)
       ELSE IF h.opcode = OpRead THEN read(s, h, r, w)
       ELSE IF h.opcode = OpWrite THEN write(s, h, r, w)
       ELSE IF h.opcode = OpMkdir THEN mkdir(s, h, r, w)
       ELSE IF h.opcode = OpRmdir THEN rmdir(s, h, r, w)
       ELSE IF h.opcode = OpReleasedir THEN releasedir(s, h, r, w)
       ELSE IF h.opcode = OpFsyncdir THEN fsyncdir(s, h, r, w)
       ELSE IF h.opcode = OpOpendir THEN opendir(s, h, r, w)
       ELSE IF h.opcode = OpReaddir THEN readdir(s, h, r, w)
       ELSE Res(s, reply_error(h.unique, w, ENOSYS), <<>>, "opcode", 0)

(* ------------------------- request inputs ------------------------------ *)
EmptyMap == [x \in {} |-> 0]

(* nodeids a guest may send: every allocated slot and one that is not *)
Nodeids == 0 .. Len(opened_files)
(* parents of a name: slot 0 holds the same path as the root slot 1 *)
Parents == 1 .. Len(opened_files)
(* the root and the first slot that is not allocated *)
EdgeNodeids == {DEFAULT_ROOT_DIR_INODE, Len(opened_files)}
GoodNames == {<<c, NUL>> : c \in NameChars}
BadNames == {<<"a">>, <<NonUtf8, NUL>>, <<>>}
BigChain == <<16, 184>>
WriterChains == {<<>>, <<16>>, <<10, 8>>, BigChain}
(* WriteIn.size and the data descriptors that follow WriteIn: none, one   *)
(* byte, the data split over two descriptors, a descriptor longer than    *)
(* size, a descriptor shorter than size                                   *)
WriteShapes ==
    {[size |-> 0, data |-> <<>>],
     [size |-> 1, data |-> <<1>>],
     [size |-> MaxData, data |-> <<1, MaxData - 1>>],
     [size |-> 1, data |-> <<MaxData>>],
     [size |-> MaxData, data |-> <<1>>]}
(* of a Write: the writable chain and whether the backend call fails *)
WriteOutcomes ==
    {[wbufs |-> BigChain, inject |-> 0],
     [wbufs |-> BigChain, inject |-> 1],
     [wbufs |-> <<8>>, inject |-> 0]}

(* size of the fixed record that follows InHeader *)
FixedIn(op) ==
    IF op = OpInit THEN SizeInitIn
    ELSE IF op = OpCreate THEN SizeCreateIn
    ELSE IF op = OpMkdir THEN SizeMkdirIn
    ELSE IF op = OpOpen THEN SizeOpenIn
    ELSE IF op \in {OpRead, OpReaddir} THEN SizeReadIn
    ELSE IF op = OpWrite THEN SizeWriteIn
    ELSE 0

Req(opcode, len, unique, nodeid, payload, inject) ==
    [opcode |-> opcode, len |-> len, unique |-> unique, nodeid |-> nodeid,
     major |-> 0, minor |-> 0, flags |-> 0, offset |-> 0, size |-> 0,
     payload |-> payload, inject |-> inject, errkind |-> "Unexpected"]

(* length of a well-formed request: InHeader, fixed record, payload *)
Whole(op, payload) == SizeInHeader + FixedIn(op) + Len(payload)

(* ------------------------ bounds of the model -------------------------- *)
WithinBounds(s) ==
    /\ Len(s.f) <= MaxSlots
    /\ \A i \in 1 .. Len(s.f) : Len(s.f[i].path) <= MaxPathLen
    /\ \A q \in DOMAIN s.b : s.b[q].len <= MaxLen
    /\ \A p \in DOMAIN s.w : s.w[p].written <= MaxLen

(* ------------------------- main.rs event loop -------------------------- *)
(* last is the chain the worker thread holds: Idle between chains, else   *)
(* the request and the reply handle_message produced for it.              *)
Idle == [op |-> 0, nodeid |-> 0, offset |-> 0, path |-> <<>>,
         cause |-> "", datalen |-> 0, wcap |-> 0, errkind |-> "", rep |-> Rep0]

(* avail is the descriptor chain the guest has put on the virtqueue and   *)
(* the worker has not taken yet: the decoded request h, the lengths of    *)
(* its readable descriptors rbufs and of its writable descriptors wbufs.  *)
NoChain == [h |-> Req(0, 0, 0, 0, <<>>, 0), rbufs |-> <<>>, wbufs |-> <<>>]

(* process_queue_serial, lines 115-128 of the loop over the available     *)
(* chains: Reader and Writer over the chain, handle_message(...).unwrap(). *)
(* An Err or a panic of handle_message unwinds the worker thread.         *)
Handled(h, wbufs, res) ==
    /\ WithinBounds(res.s)
    /\ opened_files' = res.s.f
    /\ opened_files_map' = res.s.m
    /\ opened_files_writer' = res.s.w
    /\ backend' = res.s.b
    /\ panicked' = (res.rep.kind \in {"fail", "panic"})
    /\ last' = [op |-> h.opcode, nodeid |-> h.nodeid, offset |-> h.offset,
                path |-> res.path, cause |-> res.cause,
                datalen |-> res.datalen, wcap |-> SumSeq(wbufs),
                errkind |-> IF h.inject = 0 THEN "" ELSE h.errkind,
                rep |-> res.rep]
    /\ lookup_ino' =
          IF h.opcode = OpLookup /\ res.rep.kind = "ok"
          THEN MapInsert(lookup_ino, res.path, res.rep.nodeid)
          ELSE IF h.opcode \in {OpUnlink, OpRmdir} /\ res.path # <<>>
               THEN MapRemove(lookup_ino, res.path)
               ELSE lookup_ino

ProcessChain ==
    /\ ~panicked
    /\ avail # NoChain
    /\ Handled(avail.h, avail.wbufs,
               handle_message([f |-> opened_files, m |-> opened_files_map,
                               w |-> opened_files_writer, b |-> backend],
                              capability, avail.h, avail.rbufs, avail.wbufs))
    /\ avail' = NoChain
    /\ UNCHANGED <<capability, vq, fut, dcc, ovfs, threads>>

(* return_descriptor, lines 87-101: the queue is signalled always without *)
(* event_idx, and under event_idx when needs_notification says so or      *)
(* fails; "skip" when it is not signalled, "ok" when the signal           *)
(* succeeded, "fail" when signal_used_queue returned Err.                 *)
SignalOutcomes(event_idx) ==
    IF event_idx THEN {"skip", "ok", "fail"} ELSE {"ok", "fail"}

(* process_queue_serial, line 129, and return_descriptor, lines 71-102:   *)
(* add_used(head_index, used_len) hands the chain back to the guest, or   *)
(* fails, which is logged and leaves the chain with no used entry; then   *)
(* the queue is signalled, and a signal_used_queue that returns Err       *)
(* panics at the unwrap (lines 91, 95, 100) and stops the worker thread;  *)
(* otherwise the thread takes the next chain.  The used length comes from *)
(* a u32 (OutHeader.len, or 0), so the exit(1) of lines 77-83 is not      *)
(* reached.  The used ring itself is followed in QueueSpec; here vq keeps *)
(* the outcome of the add_used and of the signal of the chain returned    *)
(* last.                                                                  *)
ReturnDescriptor ==
    /\ ~panicked
    /\ last # Idle
    /\ \E added \in BOOLEAN, sig \in SignalOutcomes(vq.event_idx) :
          /\ last' = Idle
          /\ panicked' = (sig = "fail")
          /\ vq' = [vq EXCEPT !.add_used = IF added THEN "ok" ELSE "err",
                              !.irq = @ \/ sig = "ok",
                              !.signal = sig]
    /\ UNCHANGED <<opened_files, opened_files_map, opened_files_writer, backend,
                   capability, avail, lookup_ino, fut, dcc, ovfs, threads>>

(* The request virtqueue and the worker thread's position in             *)
(* handle_event_serial.  ring is the available ring (every chain the      *)
(* guest has published, oldest first), next_avail the number of chains    *)
(* the device has taken from it, avail_event the index at which the guest *)
(* kicks again under VIRTIO_RING_F_EVENT_IDX, used the used ring, kicked  *)
(* the queue's eventfd, irq the call eventfd, add_used and signal the     *)
(* outcomes of the last return_descriptor's add_used and signalling.      *)
(* VhostUserFsThread::new leaves mem unset and event_idx false.           *)
(* fut is the async function the worker's runtime is driving             *)
(* (rt.block_on), with the point it has reached: whether it holds the     *)
(* guard of opened_files_writer.lock() and which backend call it awaits.  *)
NoCall == [call |-> "none", at |-> "", lock |-> FALSE, io |-> "none",
           path |-> <<>>, offset |-> 0, datalen |-> 0, append |-> FALSE,
           fail |-> 0]

(* ovfs is the inode table of ovfs_filesystem.rs, opened_inodes: the      *)
(* slots of the slab (each with its generation, its value when it holds   *)
(* one, and the slot that follows it on the free list), the head of the   *)
(* free list, the value stored last under each key handed out and not     *)
(* deleted, the number of inserts so far, and the outcome of the last     *)
(* call.                                                                  *)
NoInodes == [slots |-> <<>>, head |-> 0, stored |-> <<>>, inserts |-> 0,
             out |-> [op |-> "none", key |-> 0, ok |-> TRUE, errno |-> 0,
                      value |-> <<>>]]

(* threads are handlers of one Filesystem running on several threads:     *)
(* for each thread the handler it runs, its path, the steps it has left,  *)
(* the mutexes it holds, the inode it has obtained, and the shard of the  *)
(* slab the thread owns (-1 until its first insert).                      *)
NoThread == [op |-> "none", path |-> <<>>, todo |-> <<>>, holds |-> {},
             inode |-> -1, shard |-> -1]
NoThreads == <<NoThread, NoThread>>

(* dcc is a DescriptorChainConsumer (or a BufferWrapper) exercised on its *)
(* own: the operation applied last, the consumer c with the total length  *)
(* it started with and the sum of the counts its consume calls returned,  *)
(* the operation's arguments and its outcome.                             *)
NoConsumer == [op |-> "none", c |-> NewConsumer(<<>>), total |-> 0, sum |-> 0,
               arg |-> <<>>, out |-> <<>>]

VqInit ==
    [mem |-> FALSE, event_idx |-> FALSE, ring |-> <<>>, next_avail |-> 0,
     avail_event |-> 0, used |-> <<>>, kicked |-> FALSE, irq |-> FALSE,
     add_used |-> "none", signal |-> "none", pc |-> "idle", batch |-> <<>>, ret |-> "none"]

InitState ==
    /\ opened_files = <<>>
    /\ opened_files_map = EmptyMap
    /\ opened_files_writer = EmptyMap
    /\ backend = InitialBackend
    /\ capability = FsCapability
    /\ avail = NoChain
    /\ last = Idle
    /\ lookup_ino = EmptyMap
    /\ panicked = FALSE
    /\ vq = VqInit
    /\ fut = NoCall
    /\ dcc = NoConsumer
    /\ ovfs = NoInodes
    /\ threads = NoThreads

(* --------------------------- the guest --------------------------------- *)
(* The guest driver puts one chain on the queue and kicks; the serial     *)
(* worker has returned the chains before it, and what vq notes of the     *)
(* return of the chain before (add_used, signal) is cleared.              *)
Submit(h, rbufs, wbufs) ==
    /\ ~panicked
    /\ avail = NoChain
    /\ last = Idle
    /\ avail' = [h |-> h, rbufs |-> rbufs, wbufs |-> wbufs]
    /\ vq' = [vq EXCEPT !.add_used = "none", !.signal = "none"]
    /\ UNCHANGED <<opened_files, opened_files_map, opened_files_writer, backend,
                   capability, last, lookup_ino, panicked, fut, dcc, ovfs, threads>>

(* a well-formed request in one readable descriptor *)
Send(op, k, nm, fl, off, sz, wb, inj) ==
    Submit([Req(op, Whole(op, nm), 1, k, nm, inj)
              EXCEPT !.flags = fl, !.offset = off, !.size = sz],
           <<Whole(op, nm)>>, wb)

InitReq ==
    \E major \in {6, 7, 8}, minor \in {26, 27, 38} :
        Submit([Req(OpInit, Whole(OpInit, <<>>), 1, 0, <<>>, 0)
                  EXCEPT !.major = major, !.minor = minor],
               <<Whole(OpInit, <<>>)>>, BigChain)

DestroyReq == Send(OpDestroy, 0, <<>>, 0, 0, 0, BigChain, 0)
ForgetReq == \E k \in EdgeNodeids : Send(OpForget, k, <<>>, 0, 0, 0, BigChain, 0)
LookupReq ==
    \E k \in Parents, nm \in GoodNames : Send(OpLookup, k, nm, 0, 0, 0, BigChain, 0)
GetattrReq == \E k \in Nodeids : Send(OpGetattr, k, <<>>, 0, 0, 0, BigChain, 0)
SetattrReq == \E k \in Nodeids : Send(OpSetattr, k, <<>>, 0, 0, 0, BigChain, 0)
CreateReq ==
    \E k \in Parents, nm \in GoodNames, fl \in {0, O_WRONLY + O_CREAT} :
        Send(OpCreate, k, nm, fl, 0, 0, BigChain, 0)
UnlinkReq ==
    \E k \in Parents, nm \in GoodNames : Send(OpUnlink, k, nm, 0, 0, 0, BigChain, 0)
RmdirReq ==
    \E k \in Parents, nm \in GoodNames : Send(OpRmdir, k, nm, 0, 0, 0, BigChain, 0)
MkdirReq ==
    \E k \in Parents, nm \in GoodNames : Send(OpMkdir, k, nm, 0, 0, 0, BigChain, 0)
ReleaseReq == \E k \in Nodeids : Send(OpRelease, k, <<>>, 0, 0, 0, BigChain, 0)
FlushReq == \E k \in EdgeNodeids : Send(OpFlush, k, <<>>, 0, 0, 0, BigChain, 0)
ReleasedirReq == \E k \in EdgeNodeids : Send(OpReleasedir, k, <<>>, 0, 0, 0, BigChain, 0)
FsyncdirReq == \E k \in EdgeNodeids : Send(OpFsyncdir, k, <<>>, 0, 0, 0, BigChain, 0)
OpendirReq == \E k \in EdgeNodeids : Send(OpOpendir, k, <<>>, 0, 0, 0, BigChain, 0)
OpenReq ==
    \E k \in Nodeids, fl \in {0, O_WRONLY, O_WRONLY + O_APPEND} :
        Send(OpOpen, k, <<>>, fl, 0, 0, BigChain, 0)
ReadReq == \E k \in Nodeids : Send(OpRead, k, <<>>, 0, 0, MaxLen, BigChain, 0)
ReaddirReq == \E k \in Nodeids : Send(OpReaddir, k, <<>>, 0, 0, 4096, BigChain, 0)
WriteReq ==
    \E k \in Nodeids, off \in {0, MaxLen} :
        Submit([Req(OpWrite, Whole(OpWrite, <<>>) + MaxLen, 1, k, <<>>, 0)
                  EXCEPT !.offset = off, !.size = MaxLen],
               <<Whole(OpWrite, <<>>), MaxLen>>, BigChain)

Next ==
    \/ InitReq
    \/ DestroyReq
    \/ ForgetReq
    \/ LookupReq
    \/ GetattrReq
    \/ SetattrReq
    \/ CreateReq
    \/ UnlinkReq
    \/ ReleaseReq
    \/ FlushReq
    \/ OpenReq
    \/ ReadReq
    \/ WriteReq
    \/ MkdirReq
    \/ RmdirReq
    \/ ReleasedirReq
    \/ FsyncdirReq
    \/ OpendirReq
    \/ ReaddirReq
    \/ ProcessChain
    \/ ReturnDescriptor

Spec == InitState /\ [][Next]_vars

(* The requests that resolve paths and allocate inodes.  Open, Write and  *)
(* Release read the slab and touch only the writer registry and the       *)
(* stored objects (filesystem.rs 350-401, 442-474); they are left to      *)
(* WriteSpec and SlotSpec.                                                *)
InodeNext ==
    \/ InitReq
    \/ DestroyReq
    \/ ForgetReq
    \/ LookupReq
    \/ GetattrReq
    \/ SetattrReq
    \/ CreateReq
    \/ UnlinkReq
    \/ FlushReq
    \/ ReadReq
    \/ MkdirReq
    \/ RmdirReq
    \/ ReleasedirReq
    \/ FsyncdirReq
    \/ OpendirReq
    \/ ReaddirReq
    \/ ProcessChain
    \/ ReturnDescriptor

InodeSpec == InitState /\ [][InodeNext]_vars

(* Every request of the session, Open, Write and Release included, with   *)
(* the slab kept one slot below MaxSlots so that the writer registry and  *)
(* the stored objects can vary beside it.                                 *)
SlotChain ==
    /\ ProcessChain
    /\ Len(opened_files') < MaxSlots

SlotNext ==
    \/ InitReq
    \/ DestroyReq
    \/ ForgetReq
    \/ LookupReq
    \/ GetattrReq
    \/ SetattrReq
    \/ CreateReq
    \/ UnlinkReq
    \/ ReleaseReq
    \/ FlushReq
    \/ OpenReq
    \/ ReadReq
    \/ WriteReq
    \/ MkdirReq
    \/ RmdirReq
    \/ ReleasedirReq
    \/ FsyncdirReq
    \/ OpendirReq
    \/ ReaddirReq
    \/ SlotChain
    \/ ReturnDescriptor

SlotSpec == InitState /\ [][SlotNext]_vars

(* The write path: two stored files, their inodes, their writers.  The    *)
(* guest looks the files up, opens them for writing, writes at offsets    *)
(* that match the cursor and at offsets that do not, and releases them.   *)
WriteBackend ==
    (<<>> :> [mode |-> "DIR", len |-> 0])
    @@ (<<"a">> :> [mode |-> "FILE", len |-> 1])
    @@ (<<"d">> :> [mode |-> "FILE", len |-> 0])

WriteInit ==
    /\ opened_files = <<>>
    /\ opened_files_map = EmptyMap
    /\ opened_files_writer = EmptyMap
    /\ backend = WriteBackend
    /\ capability = FsCapability
    /\ avail = NoChain
    /\ last = Idle
    /\ lookup_ino = EmptyMap
    /\ panicked = FALSE
    /\ vq = VqInit
    /\ fut = NoCall
    /\ dcc = NoConsumer
    /\ ovfs = NoInodes
    /\ threads = NoThreads

WOpenReq ==
    \E k \in Nodeids, inj \in {0, 1},
       fl \in {0, O_TRUNC, O_WRONLY, O_RDWR + O_CREAT, O_WRONLY + O_APPEND} :
        Send(OpOpen, k, <<>>, fl, 0, 0, BigChain, inj)

WWriteReq ==
    \E k \in 2 .. Len(opened_files), off \in 0 .. MaxLen,
       sh \in WriteShapes, o \in WriteOutcomes :
        Submit([Req(OpWrite, Whole(OpWrite, <<>>) + sh.size, 1, k, <<>>, o.inject)
                  EXCEPT !.offset = off, !.size = sh.size],
               <<Whole(OpWrite, <<>>)>> \o sh.data, o.wbufs)

(* Create of "a" in the root, read-only and for writing *)
WCreateReq ==
    \E fl \in {0, O_WRONLY + O_CREAT} :
        Send(OpCreate, DEFAULT_ROOT_DIR_INODE, <<"a", NUL>>, fl, 0, 0, BigChain, 0)

WriteNext ==
    \/ InitReq
    \/ LookupReq
    \/ WCreateReq
    \/ WOpenReq
    \/ WWriteReq
    \/ ReleaseReq
    \/ ProcessChain
    \/ ReturnDescriptor

WriteSpec == WriteInit /\ [][WriteNext]_vars

(* The framing of requests and replies: the guest chooses the lengths of  *)
(* the readable and of the writable descriptors, and need not fill them   *)
(* as the protocol asks.                                                  *)
ChainLookupReq ==
    \E k \in Nodeids, nm \in GoodNames \cup BadNames, wb \in WriterChains,
       inj \in {0, 1} :
        Send(OpLookup, k, nm, 0, 0, 0, wb, inj)
ChainGetattrReq ==
    \E k \in Nodeids, wb \in WriterChains, inj \in {0, 1} :
        Send(OpGetattr, k, <<>>, 0, 0, 0, wb, inj)
ChainReadReq ==
    \E k \in Nodeids, wb \in WriterChains, inj \in {0, 1} :
        Send(OpRead, k, <<>>, 0, 0, MaxLen, wb, inj)
ChainReaddirReq ==
    \E k \in Nodeids, wb \in WriterChains, inj \in {0, 1}, sz \in {32, 4096} :
        Send(OpReaddir, k, <<>>, 0, 0, sz, wb, inj)

(* readable chains that end before the request does: nothing, a part of   *)
(* InHeader, InHeader alone, all but the last byte                        *)
ShortChains(len) == {<<>>, <<SizeInHeader - 1>>, <<SizeInHeader>>, <<len - 1>>}

(* a request whose readable chain is shorter than in_header.len says, for *)
(* an opcode with a fixed record or a name                                *)
TruncatedReq ==
    \E op \in {OpInit, OpLookup, OpCreate, OpRead, OpWrite, OpMkdir, OpReaddir},
       nm \in {<<>>, <<"a", NUL>>} :
        \E rb \in ShortChains(Whole(op, nm)) :
            Submit(Req(op, Whole(op, nm), 1, DEFAULT_ROOT_DIR_INODE, nm, 0),
                   rb, BigChain)

(* a request whose in_header.len is less than its InHeader and fixed      *)
(* record, or more than the largest message, or whose opcode is unknown   *)
MislabelledReq ==
    \E op \in {OpLookup, OpCreate, OpGetattr, 0},
       len \in {SizeInHeader - 1, SizeInHeader,
                MAX_BUFFER_SIZE + BUFFER_HEADER_SIZE + 1} :
        Submit(Req(op, len, 1, DEFAULT_ROOT_DIR_INODE, <<>>, 0),
               <<SizeInHeader + SizeCreateIn>>, BigChain)

(* a request on an object the backend holds, whose backend call fails     *)
(* with an error of the kind errkind                                      *)
FailingReq ==
    \E kind \in ErrorKinds :
        \/ \E op \in {OpLookup, OpUnlink} :
              Submit([Req(op, Whole(op, <<"a", NUL>>), 1, DEFAULT_ROOT_DIR_INODE,
                          <<"a", NUL>>, 1) EXCEPT !.errkind = kind],
                     <<Whole(op, <<"a", NUL>>)>>, BigChain)
        \/ \E op \in {OpGetattr, OpReaddir} :
              Submit([Req(op, Whole(op, <<>>), 1, DEFAULT_ROOT_DIR_INODE, <<>>, 1)
                        EXCEPT !.errkind = kind],
                     <<Whole(op, <<>>)>>, BigChain)

(* a request whose opcode Opcode::try_from does not know *)
UnknownReq ==
    \E op \in {0, 5, 99}, u \in {1, 2}, k \in EdgeNodeids, wb \in WriterChains :
        Submit(Req(op, SizeInHeader, u, k, <<>>, 0), <<SizeInHeader>>, wb)

ChainNext ==
    \/ InitReq
    \/ UnknownReq
    \/ FailingReq
    \/ ChainLookupReq
    \/ ChainGetattrReq
    \/ ChainReadReq
    \/ ChainReaddirReq
    \/ TruncatedReq
    \/ MislabelledReq
    \/ ProcessChain
    \/ ReturnDescriptor

ChainSpec == InitState /\ [][ChainNext]_vars

(* Reads and directory listings in pages: the guest looks objects up and *)
(* reads them from every offset with every size up to the longest stored  *)
(* object, and lists directories from every offset up to the number of    *)
(* entries.                                                               *)
PagedReadReq ==
    \E k \in Nodeids, off \in 0 .. MaxLen, sz \in 0 .. MaxLen :
        Send(OpRead, k, <<>>, 0, off, sz, BigChain, 0)
PagedReaddirReq ==
    \E k \in Nodeids, off \in 0 .. Len(NameOrder) :
        Send(OpReaddir, k, <<>>, 0, off, 4096, BigChain, 0)

PageNext ==
    \/ InitReq
    \/ LookupReq
    \/ PagedReadReq
    \/ PagedReaddirReq
    \/ ProcessChain
    \/ ReturnDescriptor

PageSpec == InitState /\ [][PageNext]_vars

(* Open against a backend that can neither write nor append, so that     *)
(* both tests of check_flags reject.  The flags are those check_flags     *)
(* decides on its own: none, truncating, appending, creating.             *)
ReadOnlyCapability == [write |-> FALSE, write_can_append |-> FALSE]

CapInit ==
    /\ opened_files = <<>>
    /\ opened_files_map = EmptyMap
    /\ opened_files_writer = EmptyMap
    /\ backend = WriteBackend
    /\ capability = ReadOnlyCapability
    /\ avail = NoChain
    /\ last = Idle
    /\ lookup_ino = EmptyMap
    /\ panicked = FALSE
    /\ vq = VqInit
    /\ fut = NoCall
    /\ dcc = NoConsumer
    /\ ovfs = NoInodes
    /\ threads = NoThreads

CapOpenReq ==
    \E k \in Nodeids,
       fl \in {0, O_WRONLY + O_TRUNC, O_WRONLY + O_APPEND, O_RDWR + O_CREAT} :
        Send(OpOpen, k, <<>>, fl, 0, 0, BigChain, 0)

CapNext ==
    \/ InitReq
    \/ LookupReq
    \/ CapOpenReq
    \/ ReleaseReq
    \/ ProcessChain
    \/ ReturnDescriptor

CapSpec == CapInit /\ [][CapNext]_vars

(* ------------------- the request virtqueue of main.rs ------------------ *)
MaxChains == 3

(* The chains the guest publishes: Destroy (answered with nothing), a      *)
(* Getattr of inode 0 (no such slot before Init: an error reply), Init    *)
(* (a reply with an InitOut) and an Init whose chain has no readable      *)
(* descriptor (handle_message returns Err).                               *)
QueueChains ==
    {[h |-> Req(OpDestroy, Whole(OpDestroy, <<>>), 0, 0, <<>>, 0),
      rbufs |-> <<Whole(OpDestroy, <<>>)>>, wbufs |-> BigChain],
     [h |-> Req(OpGetattr, Whole(OpGetattr, <<>>), 0, 0, <<>>, 0),
      rbufs |-> <<Whole(OpGetattr, <<>>)>>, wbufs |-> BigChain],
     [h |-> [Req(OpInit, Whole(OpInit, <<>>), 0, 0, <<>>, 0)
               EXCEPT !.major = KERNEL_VERSION, !.minor = KERNEL_MINOR_VERSION],
      rbufs |-> <<Whole(OpInit, <<>>)>>, wbufs |-> BigChain],
     [h |-> Req(OpInit, Whole(OpInit, <<>>), 0, 0, <<>>, 0),
      rbufs |-> <<>>, wbufs |-> BigChain]}

(* update_memory, called by the vhost-user daemon when the guest sets its *)
(* memory table                                                           *)
update_memory ==
    /\ ~vq.mem
    /\ vq' = [vq EXCEPT !.mem = TRUE]
    /\ UNCHANGED <<opened_files, opened_files_map, opened_files_writer, backend,
                   capability, avail, last, lookup_ino, panicked, fut, dcc, ovfs, threads>>

(* set_event_idx, called by the daemon when the features are negotiated,  *)
(* before the guest uses the queue                                        *)
set_event_idx ==
    /\ vq.ring = <<>>
    /\ vq.pc = "idle"
    /\ \E enabled \in BOOLEAN : vq' = [vq EXCEPT !.event_idx = enabled]
    /\ UNCHANGED <<opened_files, opened_files_map, opened_files_writer, backend,
                   capability, avail, last, lookup_ino, panicked, fut, dcc, ovfs, threads>>

(* The guest driver publishes a chain: it writes the head into the        *)
(* available ring, moves the available index from old to old + 1 and      *)
(* kicks the queue's eventfd, under VIRTIO_RING_F_EVENT_IDX only when     *)
(* avail_event is the old index (vring_need_event), otherwise always      *)
(* (the device never sets VRING_USED_F_NO_NOTIFY without event_idx).      *)
(* The head is the chain's position in the ring; the request carries it   *)
(* as its unique.  A session has one Init.                                *)
GuestAdd ==
    /\ Len(vq.ring) < MaxChains
    /\ \E c \in QueueChains :
        /\ c.h.opcode = OpInit /\ c.rbufs # <<>>
              => \A i \in 1 .. Len(vq.ring) :
                    ~(vq.ring[i].h.opcode = OpInit /\ vq.ring[i].rbufs # <<>>)
        /\ vq' = [vq EXCEPT
                    !.ring = Append(@, [head |-> Len(vq.ring) + 1,
                                        h |-> [c.h EXCEPT !.unique = Len(vq.ring) + 1],
                                        rbufs |-> c.rbufs, wbufs |-> c.wbufs]),
                    !.kicked = @ \/ ~vq.event_idx \/ vq.avail_event = Len(vq.ring)]
    /\ UNCHANGED <<opened_files, opened_files_map, opened_files_writer, backend,
                   capability, avail, last, lookup_ino, panicked, fut, dcc, ovfs, threads>>

(* handle_event and the head of handle_event_serial: the daemon's epoll   *)
(* loop reads the queue's eventfd and calls handle_event with             *)
(* REQ_QUEUE_EVENT and EventSet::IN.  disable_notification writes nothing *)
(* under event_idx, and without event_idx it is not called.               *)
handle_event ==
    /\ vq.pc = "idle"
    /\ vq.kicked
    /\ vq' = [vq EXCEPT !.kicked = FALSE, !.pc = "drain", !.ret = "none"]
    /\ UNCHANGED <<opened_files, opened_files_map, opened_files_writer, backend,
                   capability, avail, last, lookup_ino, panicked, fut, dcc, ovfs, threads>>

(* process_queue_serial, lines 105-114: Err when no memory is configured  *)
(* (line 108) and when iter() fails (the queue is not ready, or the       *)
(* available index cannot be read; lines 110-113), which                  *)
(* handle_event_serial's ? returns, under event_idx before                *)
(* enable_notification; else iter().collect() takes every chain between   *)
(* next_avail and the available index read once                           *)
process_queue_serial ==
    /\ vq.pc = "drain"
    /\ \E iter_ok \in BOOLEAN :
          vq' = IF ~vq.mem \/ ~iter_ok
                THEN [vq EXCEPT !.pc = "idle", !.ret = "err"]
                ELSE [vq EXCEPT !.pc = "batch",
                                !.batch = SubSeq(vq.ring, vq.next_avail + 1, Len(vq.ring)),
                                !.next_avail = Len(vq.ring)]
    /\ UNCHANGED <<opened_files, opened_files_map, opened_files_writer, backend,
                   capability, avail, last, lookup_ino, panicked, fut, dcc, ovfs, threads>>

(* return_descriptor: add_used(head_index, used_len), whose failure is    *)
(* logged and nothing more (lines 84-86: the chain gets no used entry     *)
(* and the queue is signalled all the same), then                         *)
(* signal_used_queue().unwrap(): always without event_idx, and under      *)
(* event_idx when needs_notification says so or fails.  added tells       *)
(* whether add_used succeeded; sig is "skip" when the queue is not        *)
(* signalled, "ok" when the signal succeeded and "fail" when it returned  *)
(* Err, which the unwrap turns into a panic (SignalOutcomes).  len is a   *)
(* u32 widened to usize by handle_message, so len.try_into() succeeds     *)
(* (lines 77-83).                                                         *)
return_descriptor(q, head_index, len, added, sig) ==
    [q EXCEPT !.used = IF added THEN Append(@, [id |-> head_index, len |-> len])
                       ELSE @,
              !.add_used = IF added THEN "ok" ELSE "err",
              !.irq = @ \/ sig = "ok",
              !.signal = sig,
              !.pc = IF sig = "fail" THEN "unwound" ELSE @]

(* process_queue_serial, lines 115-130, one turn of the loop over the     *)
(* collected chains: handle_message(...).unwrap(), return_descriptor.  A  *)
(* panic unwinds the thread and drops the chains still in the Vec.        *)
HandleChain ==
    /\ vq.pc = "batch"
    /\ vq.batch # <<>>
    /\ LET c == Head(vq.batch)
           res == handle_message([f |-> opened_files, m |-> opened_files_map,
                                  w |-> opened_files_writer, b |-> backend],
                                 capability, c.h, c.rbufs, c.wbufs)
       IN /\ Handled(c.h, c.wbufs, res)
          /\ IF res.rep.kind \in {"fail", "panic"}
             THEN vq' = [vq EXCEPT !.pc = "unwound", !.batch = <<>>]
             ELSE \E added \in BOOLEAN, sig \in SignalOutcomes(vq.event_idx) :
                    LET q == return_descriptor(vq, c.head, res.rep.used, added, sig)
                    IN vq' = [q EXCEPT !.batch = IF sig = "fail" THEN <<>>
                                                 ELSE Tail(@)]
    /\ UNCHANGED <<capability, avail, fut, dcc, ovfs, threads>>

(* handle_event_serial, line 149 and 151: without event_idx the one       *)
(* process_queue_serial is followed by Ok(())                             *)
ReturnOk ==
    /\ vq.pc = "batch"
    /\ vq.batch = <<>>
    /\ ~vq.event_idx
    /\ vq' = [vq EXCEPT !.pc = "idle", !.ret = "ok"]
    /\ UNCHANGED <<opened_files, opened_files_map, opened_files_writer, backend,
                   capability, avail, last, lookup_ino, panicked, fut, dcc, ovfs, threads>>

(* enable_notification, first half: under event_idx the device writes     *)
(* next_avail into avail_event; an Err of the write panics at the unwrap  *)
(* of line 143                                                            *)
EnableNotificationWrite ==
    /\ vq.pc = "batch"
    /\ vq.batch = <<>>
    /\ vq.event_idx
    /\ \E written \in BOOLEAN :
          vq' = IF written
                THEN [vq EXCEPT !.pc = "enable", !.avail_event = vq.next_avail]
                ELSE [vq EXCEPT !.pc = "unwound"]
    /\ UNCHANGED <<opened_files, opened_files_map, opened_files_writer, backend,
                   capability, avail, last, lookup_ino, panicked, fut, dcc, ovfs, threads>>

(* enable_notification, second half, after the fence: it reads the        *)
(* available index and reports whether it differs from next_avail;        *)
(* handle_event_serial loops when it does and returns Ok(()) when not;    *)
(* an Err of the read panics at the unwrap of line 143                    *)
EnableNotificationRead ==
    /\ vq.pc = "enable"
    /\ \E fetched \in BOOLEAN :
          vq' = IF ~fetched
                THEN [vq EXCEPT !.pc = "unwound"]
                ELSE IF Len(vq.ring) # vq.next_avail
                     THEN [vq EXCEPT !.pc = "drain"]
                     ELSE [vq EXCEPT !.pc = "idle", !.ret = "ok"]
    /\ UNCHANGED <<opened_files, opened_files_map, opened_files_writer, backend,
                   capability, avail, last, lookup_ino, panicked, fut, dcc, ovfs, threads>>

QueueNext ==
    \/ update_memory
    \/ set_event_idx
    \/ GuestAdd
    \/ handle_event
    \/ process_queue_serial
    \/ HandleChain
    \/ ReturnOk
    \/ EnableNotificationWrite
    \/ EnableNotificationRead

QueueSpec == InitState /\ [][QueueNext]_vars

(* ------------- the writer registry's lock, step by step ---------------- *)
(* do_set_writer, do_write and release's removal, one await or lock       *)
(* operation at a time, on the two stored files.  The outcome of a whole  *)
(* call is that of do_set_writer, do_write and release above.             *)
LockPaths == {<<"/", "a">>, <<"/", "d">>}

(* do_set_writer, lines 766-776: check_flags, then writer_with(path)      *)
(* is awaited; a call that does not write returns at once                 *)
DoSetWriterCall ==
    /\ fut = NoCall
    /\ \E path \in LockPaths, flags \in {O_WRONLY, O_WRONLY + O_APPEND},
          fail \in {0, 1, 2} :
        LET cf == check_flags(capability, flags)
        IN /\ cf.ok /\ cf.is_write
           /\ fut' = [NoCall EXCEPT !.call = "do_set_writer", !.at = "writer_with",
                                    !.io = "writer_with", !.path = path,
                                    !.append = cf.is_append, !.fail = fail]
    /\ UNCHANGED <<opened_files, opened_files_map, opened_files_writer, backend,
                   capability, avail, last, lookup_ino, panicked, vq, dcc, ovfs, threads>>

(* do_set_writer, lines 772-786: writer_with completes; ? returns its Err, *)
(* else stat(path) is awaited when appending                              *)
DoSetWriterOpened ==
    /\ fut.call = "do_set_writer" /\ fut.at = "writer_with"
    /\ LET ow == BackendOpenWriter(backend, fut.path, fut.append, fut.fail = 1)
       IN /\ backend' = ow.b
          /\ fut' = IF ~ow.ok THEN NoCall
                    ELSE IF fut.append
                         THEN [fut EXCEPT !.at = "stat", !.io = "stat"]
                         ELSE [fut EXCEPT !.at = "insert", !.io = "none"]
    /\ UNCHANGED <<opened_files, opened_files_map, opened_files_writer,
                   capability, avail, last, lookup_ino, panicked, vq, dcc, ovfs, threads>>

(* do_set_writer, lines 778-786: stat completes; written is the content   *)
(* length                                                                 *)
DoSetWriterStat ==
    /\ fut.call = "do_set_writer" /\ fut.at = "stat"
    /\ LET st == BackendStat(backend, fut.path, fut.fail = 2)
       IN fut' = IF ~st.ok THEN NoCall
                 ELSE [fut EXCEPT !.at = "insert", !.io = "none", !.offset = st.len]
    /\ UNCHANGED <<opened_files, opened_files_map, opened_files_writer, backend,
                   capability, avail, last, lookup_ino, panicked, vq, dcc, ovfs, threads>>

(* do_set_writer, line 789: opened_files_writer.lock() *)
DoSetWriterLock ==
    /\ fut.call = "do_set_writer" /\ fut.at = "insert"
    /\ fut' = [fut EXCEPT !.at = "locked", !.lock = TRUE]
    /\ UNCHANGED <<opened_files, opened_files_map, opened_files_writer, backend,
                   capability, avail, last, lookup_ino, panicked, vq, dcc, ovfs, threads>>

(* do_set_writer, lines 790-793: insert, Ok(()), the guard is dropped *)
DoSetWriterInsert ==
    /\ fut.call = "do_set_writer" /\ fut.at = "locked"
    /\ opened_files_writer' =
          MapInsert(opened_files_writer, fut.path, [written |-> fut.offset])
    /\ fut' = NoCall
    /\ UNCHANGED <<opened_files, opened_files_map, backend,
                   capability, avail, last, lookup_ino, panicked, vq, dcc, ovfs, threads>>

(* do_write, lines 815-817: opened_files_writer.lock() *)
DoWriteLock ==
    /\ fut = NoCall
    /\ \E path \in LockPaths, offset \in 0 .. MaxLen, datalen \in 1 .. MaxData,
          fail \in {0, 1} :
        fut' = [NoCall EXCEPT !.call = "do_write", !.at = "locked", !.lock = TRUE,
                              !.path = path, !.offset = offset,
                              !.datalen = datalen, !.fail = fail]
    /\ UNCHANGED <<opened_files, opened_files_map, opened_files_writer, backend,
                   capability, avail, last, lookup_ino, panicked, vq, dcc, ovfs, threads>>

(* do_write, lines 818-827: get_mut and the offset test return Err (the   *)
(* guard is dropped), else write_from(data) is awaited under the guard    *)
DoWriteCheck ==
    /\ fut.call = "do_write" /\ fut.at = "locked"
    /\ fut' = IF fut.path \notin DOMAIN opened_files_writer THEN NoCall
              ELSE IF fut.offset # opened_files_writer[fut.path].written THEN NoCall
              ELSE [fut EXCEPT !.at = "write_from", !.io = "write_from"]
    /\ UNCHANGED <<opened_files, opened_files_map, opened_files_writer, backend,
                   capability, avail, last, lookup_ino, panicked, vq, dcc, ovfs, threads>>

(* do_write, lines 824-832: write_from completes; ? returns its Err, else *)
(* written += len and Ok(len); the guard is dropped                       *)
DoWriteDone ==
    /\ fut.call = "do_write" /\ fut.at = "write_from"
    /\ LET dw == do_write([f |-> opened_files, m |-> opened_files_map,
                           w |-> opened_files_writer, b |-> backend],
                          fut.path, fut.offset, fut.datalen, fut.fail = 1)
       IN /\ backend' = dw.s.b
          /\ opened_files_writer' = dw.s.w
          /\ \A p \in DOMAIN dw.s.w : dw.s.w[p].written <= MaxLen
    /\ fut' = NoCall
    /\ UNCHANGED <<opened_files, opened_files_map,
                   capability, avail, last, lookup_ino, panicked, vq, dcc, ovfs, threads>>

(* release, line 362: opened_files_writer.lock() *)
ReleaseLock ==
    /\ fut = NoCall
    /\ \E path \in LockPaths :
        fut' = [NoCall EXCEPT !.call = "release", !.at = "locked", !.lock = TRUE,
                              !.path = path]
    /\ UNCHANGED <<opened_files, opened_files_map, opened_files_writer, backend,
                   capability, avail, last, lookup_ino, panicked, vq, dcc, ovfs, threads>>

(* release, lines 363-365: remove(path); the guard is dropped on return *)
ReleaseRemove ==
    /\ fut.call = "release" /\ fut.at = "locked"
    /\ opened_files_writer' = MapRemove(opened_files_writer, fut.path)
    /\ fut' = NoCall
    /\ UNCHANGED <<opened_files, opened_files_map, backend,
                   capability, avail, last, lookup_ino, panicked, vq, dcc, ovfs, threads>>

LockNext ==
    \/ DoSetWriterCall
    \/ DoSetWriterOpened
    \/ DoSetWriterStat
    \/ DoSetWriterLock
    \/ DoSetWriterInsert
    \/ DoWriteLock
    \/ DoWriteCheck
    \/ DoWriteDone
    \/ ReleaseLock
    \/ ReleaseRemove

LockSpec == WriteInit /\ [][LockNext]_vars

(* ------------- util.rs and buffer.rs on their own ---------------------- *)
MaxSlices == 3

(* the sequences over S of at most n elements *)
SeqsUpTo(S, n) == UNION {[1 .. k -> S] : k \in 0 .. n}

(* the slice lengths of a chain: up to MaxSlices slices of 0 .. MaxData    *)
(* bytes                                                                  *)
SliceLists == SeqsUpTo(0 .. MaxData, MaxSlices)

(* DescriptorChainConsumer over the slices of a chain *)
NewChain ==
    /\ dcc = NoConsumer
    /\ \E lens \in SliceLists :
        dcc' = [NoConsumer EXCEPT !.op = "new", !.c = NewConsumer(lens),
                                  !.total = SumSeq(lens)]
    /\ UNCHANGED <<opened_files, opened_files_map, opened_files_writer, backend,
                   capability, avail, last, lookup_ino, panicked, vq, fut, ovfs, threads>>

(* a consume call returned r.n and left the consumer r.c *)
Consume(op, r) ==
    /\ dcc.op \in {"new", "read", "read_to_at", "write_from_at"}
    /\ dcc' = [dcc EXCEPT !.op = op, !.c = r.c, !.sum = @ + r.n, !.arg = r.n]
    /\ UNCHANGED <<opened_files, opened_files_map, opened_files_writer, backend,
                   capability, avail, last, lookup_ino, panicked, vq, fut, ovfs, threads>>

(* Reader::read and Writer::write with a buffer of n bytes *)
ConsumeRead == \E n \in 0 .. MaxData + 1 : Consume("read", StreamIo(dcc.c, n))

(* Reader::read_to_at(dst, count) *)
ConsumeReadToAt ==
    \E count \in 0 .. MaxData + 1 : Consume("read_to_at", ReadToAt(dcc.c, count))

(* Writer::write_from_at(src, count), src holding datalen bytes *)
ConsumeWriteFromAt ==
    \E datalen \in 0 .. MaxData, count \in 0 .. MaxData + 1 :
        Consume("write_from_at", WriteFromAt(dcc.c, datalen, count))

(* A VolatileSlice is [addr, len]: len bytes of guest memory from addr.    *)
(* The slices of a chain lie one after the other with a gap of one byte.  *)
RECURSIVE SlicesAt(_, _)
SlicesAt(lens, addr) ==
    IF lens = <<>> THEN <<>>
    ELSE <<[addr |-> addr, len |-> Head(lens)]>>
         \o SlicesAt(Tail(lens), addr + Head(lens) + 1)

SliceLens(buffers) == [i \in 1 .. Len(buffers) |-> buffers[i].len]

(* the guest addresses a consumer yields, in order *)
RECURSIVE Addrs(_)
Addrs(buffers) ==
    IF buffers = <<>> THEN <<>>
    ELSE [i \in 1 .. Head(buffers).len |-> Head(buffers).addr + i - 1]
         \o Addrs(Tail(buffers))

(* a split_at whose other consumer starts at the front of the split slice *)
split_at_whole_front(c, offset) ==
    LET pos == SplitPos(SliceLens(c.buffers), offset, 1)
    IN IF pos.at # 0
       THEN LET keep == SubSeq(c.buffers, 1, pos.at - 1)
                other == SubSeq(c.buffers, pos.at, Len(c.buffers))
                front == Head(other)
            IN IF pos.remain > 0
               THEN [ok |-> TRUE,
                     self |-> [c EXCEPT !.buffers =
                                 Append(keep, [addr |-> front.addr, len |-> pos.remain])],
                     other |-> NewConsumer(
                                 <<[addr |-> front.addr,
                                    len |-> front.len - pos.remain]>> \o Tail(other))]
               ELSE [ok |-> TRUE,
                     self |-> [c EXCEPT !.buffers = keep],
                     other |-> NewConsumer(other)]
       ELSE IF pos.remain = 0
            THEN [ok |-> TRUE, self |-> c, other |-> NewConsumer(<<>>)]
            ELSE [ok |-> FALSE, self |-> c, other |-> NewConsumer(<<>>)]

(* split_at over slices with their addresses: split_off(at), then          *)
(* subslice(0, remain) stays and offset(remain) leads the other consumer  *)
split_at(c, offset) ==
    LET pos == SplitPos(SliceLens(c.buffers), offset, 1)
    IN IF pos.at # 0
       THEN LET keep == SubSeq(c.buffers, 1, pos.at - 1)
                other == SubSeq(c.buffers, pos.at, Len(c.buffers))
                front == Head(other)
            IN IF pos.remain > 0
               THEN [ok |-> TRUE,
                     self |-> [c EXCEPT !.buffers =
                                 Append(keep, [addr |-> front.addr, len |-> pos.remain])],
                     other |-> NewConsumer(
                                 <<[addr |-> front.addr + pos.remain,
                                    len |-> front.len - pos.remain]>> \o Tail(other))]
               ELSE [ok |-> TRUE,
                     self |-> [c EXCEPT !.buffers = keep],
                     other |-> NewConsumer(other)]
       ELSE IF pos.remain = 0
            THEN [ok |-> TRUE, self |-> c, other |-> NewConsumer(<<>>)]
            ELSE [ok |-> FALSE, self |-> c, other |-> NewConsumer(<<>>)]

(* split_at(n) on a consumer that has consumed consumed bytes already *)
SplitChain ==
    /\ dcc = NoConsumer
    /\ \E lens \in SliceLists, consumed \in {0, 1}, n \in 0 .. MaxSlices * MaxData + 1 :
        LET c == [buffers |-> SlicesAt(lens, 0), bytes_consumed |-> consumed]
        IN dcc' = [NoConsumer EXCEPT !.op = "split_at", !.total = SumSeq(lens),
                                     !.arg = [c |-> c, n |-> n],
                                     !.out = split_at(c, n)]
    /\ UNCHANGED <<opened_files, opened_files_map, opened_files_writer, backend,
                   capability, avail, last, lookup_ino, panicked, vq, fut, ovfs, threads>>

(* a copy loop that fills every slice from the start of the data *)
RECURSIVE ReadVectoredCopyFromStart(_, _, _)
ReadVectoredCopyFromStart(data, bufs, result) ==
    IF bufs = <<>> THEN [bufs |-> <<>>, result |-> result]
    ELSE LET num == Min(Len(data) - result, Len(Head(bufs)))
         IN IF num = 0 THEN [bufs |-> bufs, result |-> result]
            ELSE LET rest == ReadVectoredCopyFromStart(data, Tail(bufs), result + num)
                 IN [bufs |-> <<SubSeq(data, 1, num)
                                  \o SubSeq(Head(bufs), num + 1, Len(Head(bufs)))>>
                                \o rest.bufs,
                     result |-> rest.result]

(* read_vectored_at_volatile over the contents: the staging buffer data is *)
(* copied into the slices in turn from data[result..], and the loop ends   *)
(* at the first slice that takes no byte; [bufs, result]                   *)
RECURSIVE ReadVectoredCopy(_, _, _)
ReadVectoredCopy(data, bufs, result) ==
    IF bufs = <<>> THEN [bufs |-> <<>>, result |-> result]
    ELSE LET num == Min(Len(data) - result, Len(Head(bufs)))
         IN IF num = 0 THEN [bufs |-> bufs, result |-> result]
            ELSE LET rest == ReadVectoredCopy(data, Tail(bufs), result + num)
                 IN [bufs |-> <<SubSeq(data, result + 1, result + num)
                                  \o SubSeq(Head(bufs), num + 1, Len(Head(bufs)))>>
                                \o rest.bufs,
                     result |-> rest.result]

(* the contents of the slices one after the other *)
RECURSIVE Gathered(_)
Gathered(bufs) == IF bufs = <<>> THEN <<>> ELSE Head(bufs) \o Gathered(Tail(bufs))

(* write_vectored_at_volatile over the contents: Ok(0) and the buffer kept *)
(* when there is no slice, else the buffer becomes every byte of every     *)
(* slice; [buffer, len]                                                    *)
WriteVectoredCopy(buffer, bufs) ==
    IF bufs = <<>> THEN [buffer |-> buffer, len |-> 0]
    ELSE [buffer |-> Gathered(bufs), len |-> Len(Gathered(bufs))]

(* guest slices of the given lengths holding stale bytes *)
StaleSlices(lens) == [i \in 1 .. Len(lens) |-> [j \in 1 .. lens[i] |-> "s"]]

(* A staging buffer is copied out to the guest slices, and a fresh         *)
(* BufferWrapper (Buffer::new()) reads the same slices back.               *)
RoundTrip ==
    /\ dcc = NoConsumer
    /\ \E data \in SeqsUpTo({"x", "y"}, MaxData), lens \in SliceLists :
        LET rd == ReadVectoredCopy(data, StaleSlices(lens), 0)
            wr == WriteVectoredCopy(<<>>, rd.bufs)
        IN dcc' = [NoConsumer EXCEPT !.op = "round_trip", !.total = SumSeq(lens),
                                     !.arg = [data |-> data, lens |-> lens],
                                     !.out = [copied |-> rd.result, bufs |-> rd.bufs,
                                              back |-> wr.buffer, len |-> wr.len]]
    /\ UNCHANGED <<opened_files, opened_files_map, opened_files_writer, backend,
                   capability, avail, last, lookup_ino, panicked, vq, fut, ovfs, threads>>

(* the consumer, or the buffer, is dropped *)
DropChain ==
    /\ dcc # NoConsumer
    /\ dcc' = NoConsumer
    /\ UNCHANGED <<opened_files, opened_files_map, opened_files_writer, backend,
                   capability, avail, last, lookup_ino, panicked, vq, fut, ovfs, threads>>

UtilNext ==
    \/ DropChain
    \/ NewChain
    \/ ConsumeRead
    \/ ConsumeReadToAt
    \/ ConsumeWriteFromAt
    \/ SplitChain
    \/ RoundTrip

UtilSpec == InitState /\ [][UtilNext]_vars

(* ------------- ovfs_filesystem.rs: the opened-inode table -------------- *)
(* sharded_slab::Slab as the table uses it from one thread.  A key packs  *)
(* the slot's generation above its index; SlabGenUnit stands for the      *)
(* power of two that separates them.  The free list is threaded through   *)
(* the slots: head is the index insert takes next, and a slot's next the  *)
(* head that follows once the slot is taken; a slot never used is         *)
(* followed by the index after its own.  remove bumps the generation of   *)
(* the slot, takes its value and pushes the slot on the free list (its    *)
(* next becomes the old head, the head the slot).                         *)
SlabGenUnit == 16
MaxGen == 2
SlabPack(gen, idx) == gen * SlabGenUnit + idx
SlabIdx(key) == key % SlabGenUnit
SlabGen(key) == key \div SlabGenUnit

(* Slab::get / contains: the slot is in use under this generation *)
SlabLive(t, key) ==
    /\ SlabIdx(key) < Len(t.slots)
    /\ t.slots[SlabIdx(key) + 1].live
    /\ t.slots[SlabIdx(key) + 1].gen = SlabGen(key)

(* Slab::remove accepts a key whose generation is the slot's present one, *)
(* whether or not the slot holds a value                                  *)
SlabCurrent(t, key) ==
    /\ SlabIdx(key) < Len(t.slots)
    /\ t.slots[SlabIdx(key) + 1].gen = SlabGen(key)

(* the key Slab::insert returns next: the head of the free list under the *)
(* generation the slot has                                                *)
SlabNextKey(t) ==
    IF t.head < Len(t.slots) THEN SlabPack(t.slots[t.head + 1].gen, t.head)
    ELSE SlabPack(0, t.head)

InodeValues ==
    {[path |-> <<"/", "d">>, inode_type |-> "DIR"],
     [path |-> <<"/", "d">>, inode_type |-> "FILE"]}

(* the keys a caller may pass: for each slot its key under the present    *)
(* and every earlier generation, and the index one past the slots         *)
InodeKeys(t) ==
    {SlabPack(0, Len(t.slots))}
    \cup UNION {{SlabPack(gen, i - 1) : gen \in 0 .. t.slots[i].gen}
                  : i \in 1 .. Len(t.slots)}

TableOut(op, key, ok, errno, value) ==
    [op |-> op, key |-> key, ok |-> ok, errno |-> errno, value |-> value]

TableUnchanged ==
    UNCHANGED <<opened_files, opened_files_map, opened_files_writer, backend,
                capability, avail, last, lookup_ino, vq, fut, dcc, threads>>

(* insert_opened_inode: Ok(key); ENFILE when the slab is full is out of   *)
(* reach of the bounds.  The slot at the head of the free list takes the  *)
(* value.  A slot that was pushed on the free list twice is handed out    *)
(* twice: the second time it still holds a value, and Slab::insert then   *)
(* panics in a build with debug assertions ("inserted into full slot")    *)
(* and in a build without them overwrites the value and returns the key   *)
(* that is live.                                                          *)
insert_opened_inode ==
    /\ ~panicked
    /\ ovfs.inserts < MaxSlots
    /\ \E value \in InodeValues, debug_assertions \in BOOLEAN :
        LET key == SlabNextKey(ovfs)
            used == ovfs.head < Len(ovfs.slots)
            full == used /\ ovfs.slots[ovfs.head + 1].live
            slot == [gen |-> SlabGen(key), live |-> TRUE, value |-> value,
                     next |-> IF used THEN ovfs.slots[ovfs.head + 1].next
                              ELSE ovfs.head + 1]
        IN /\ debug_assertions => full
           /\ panicked' = (full /\ debug_assertions)
           /\ ovfs' = IF full /\ debug_assertions
                      THEN [ovfs EXCEPT !.out = TableOut("insert", key, FALSE, 0, <<>>)]
                      ELSE [slots |-> IF used
                                      THEN [ovfs.slots EXCEPT ![ovfs.head + 1] = slot]
                                      ELSE Append(ovfs.slots, slot),
                            head |-> slot.next,
                            stored |-> MapInsert(ovfs.stored, key, value),
                            inserts |-> ovfs.inserts + 1,
                            out |-> TableOut("insert", key, TRUE, 0, value)]
    /\ TableUnchanged

(* get_opened_inode: a clone of the value, or EBADF *)
get_opened_inode ==
    /\ ~panicked
    /\ UNCHANGED panicked
    /\ \E key \in InodeKeys(ovfs) :
        ovfs' = [ovfs EXCEPT !.out =
                    IF SlabLive(ovfs, key)
                    THEN TableOut("get", key, TRUE, 0,
                                  ovfs.slots[SlabIdx(key) + 1].value)
                    ELSE TableOut("get", key, FALSE, EBADF, <<>>)]
    /\ TableUnchanged

(* set_opened_inode: the value is replaced in place, or EBADF *)
set_opened_inode ==
    /\ ~panicked
    /\ UNCHANGED panicked
    /\ \E key \in InodeKeys(ovfs), value \in InodeValues :
        ovfs' = IF SlabLive(ovfs, key)
                THEN [ovfs EXCEPT !.slots[SlabIdx(key) + 1].value = value,
                                  !.stored = MapInsert(ovfs.stored, key, value),
                                  !.out = TableOut("set", key, TRUE, 0, value)]
                ELSE [ovfs EXCEPT !.out =
                                    TableOut("set", key, FALSE, EBADF, <<>>)]
    /\ TableUnchanged

(* delete_opened_inode: Slab::remove, or EBADF.  remove returns true for  *)
(* a key of the slot's present generation also when the slot holds no     *)
(* value (it was removed and not handed out again): the generation is     *)
(* bumped once more and the slot is pushed on the free list a second      *)
(* time.  The generations followed are bounded by MaxGen.                 *)
delete_opened_inode ==
    /\ ~panicked
    /\ UNCHANGED panicked
    /\ \E key \in InodeKeys(ovfs) :
        /\ SlabGen(key) < MaxGen
        /\ ovfs' = IF SlabCurrent(ovfs, key)
                   THEN [ovfs EXCEPT !.slots[SlabIdx(key) + 1] =
                                        [gen |-> SlabGen(key) + 1, live |-> FALSE,
                                         value |-> <<>>, next |-> ovfs.head],
                                     !.head = SlabIdx(key),
                                     !.stored = MapRemove(ovfs.stored, key),
                                     !.out = TableOut("delete", key, TRUE, 0, <<>>)]
                   ELSE [ovfs EXCEPT !.out =
                                       TableOut("delete", key, FALSE, EBADF, <<>>)]
    /\ TableUnchanged

TableNext ==
    \/ insert_opened_inode
    \/ get_opened_inode
    \/ set_opened_inode
    \/ delete_opened_inode

TableSpec == InitState /\ [][TableNext]_vars

(* ------------- handlers on several threads: the two mutexes ------------ *)
(* Each thread runs one handler of the same Filesystem, one lock          *)
(* operation, slab or map operation or awaited backend call at a time.    *)
(* A step is what is done and the path it is done on; a MutexGuard is     *)
(* released where it goes out of scope, at the end of the function that   *)
(* took it.                                                               *)
ThreadIds == 1 .. Len(NoThreads)
RootPath == <<"/">>

(* sharded_slab gives every thread a shard of its own, numbered in the    *)
(* order in which the threads first insert: 0 for the thread that inserts *)
(* first, whichever it is, and the thread keeps its shard from then on.   *)
(* A key carries the shard's number above the index of the slot in that   *)
(* shard.  In the library the shard number starts at bit 38; the unit is  *)
(* scaled down.  The slots are kept in the order of their keys, each with *)
(* its key; any thread can get a slot by its key.                         *)
ShardUnit == 16
ShardOf(key) == key \div ShardUnit
(* the shard thread i inserts into: its own, or the next one not taken *)
ThreadShard(i) ==
    IF threads[i].shard # -1 THEN threads[i].shard
    ELSE Cardinality({j \in ThreadIds : threads[j].shard # -1})
ShardKey(f, i) ==
    ThreadShard(i) * ShardUnit
    + Cardinality({k \in 1 .. Len(f) : ShardOf(f[k].key) = ThreadShard(i)})
ShardInsert(f, i, rec) ==
    [f |-> SelectSeq(f, LAMBDA slot : slot.key < ShardKey(f, i))
           \o <<[path |-> rec.path, ino |-> rec.ino, key |-> ShardKey(f, i)]>>
           \o SelectSeq(f, LAMBDA slot : slot.key > ShardKey(f, i)),
     inode |-> ShardKey(f, i),
     shard |-> ThreadShard(i)]
ShardHas(f, key) == \E k \in 1 .. Len(f) : f[k].key = key
ShardGet(f, key) == f[CHOOSE k \in 1 .. Len(f) : f[k].key = key]
Steps(dos, path) == [n \in 1 .. Len(dos) |-> [do |-> dos[n], path |-> path]]

(* init, lines 158-166 *)
InitSteps == <<"slab_insert", "slab_insert", "lock_map", "map_insert", "unlock_map">>
(* do_get_metadata, lines 743-764 *)
GetMetadataSteps == <<"stat", "lock_map", "map_get", "insert_absent", "unlock_map">>
(* do_readdir, lines 873-883: the closure, once for each entry *)
ReaddirEntrySteps == <<"lock_map", "map_get", "insert_absent", "unlock_map">>
(* do_set_writer, lines 766-793 *)
SetWriterSteps == <<"writer_with", "lock_writer", "writer_insert", "unlock_writer">>
(* create, lines 284-297, the map's guard living to the end of create *)
CreateSteps == <<"slab_insert", "lock_map", "map_insert">> \o SetWriterSteps \o <<"unlock_map">>
(* mkdir, lines 498-510 *)
MkdirSteps == <<"slab_insert", "lock_map", "map_insert", "create_dir", "unlock_map">>
(* unlink and rmdir, lines 340-346 and 545-551 *)
UnlinkSteps == <<"delete", "lock_map", "map_remove", "unlock_map">>
(* do_write, lines 815-832 *)
WriteSteps == <<"lock_writer", "writer_check", "write_from", "writer_advance", "unlock_writer">>
(* a release that also takes the path map's lock *)
ReleaseStepsLocksMap == <<"lock_writer", "writer_remove", "lock_map", "unlock_map", "unlock_writer">>
(* release, lines 362-365 *)
ReleaseSteps == <<"lock_writer", "writer_remove", "unlock_writer">>

Script(op, path) ==
    Steps(CASE op = "init" -> InitSteps
            [] op \in {"lookup", "getattr"} -> GetMetadataSteps
            [] op = "readdir" -> <<"list">>
            [] op = "create" -> CreateSteps
            [] op = "open" -> SetWriterSteps
            [] op = "mkdir" -> MkdirSteps
            [] op = "unlink" -> UnlinkSteps
            [] op = "write" -> WriteSteps
            [] OTHER -> ReleaseSteps,
          path)

(* slots a list of steps may still allocate *)
Allocs(todo) ==
    Cardinality({n \in 1 .. Len(todo) : todo[n].do \in {"slab_insert", "insert_absent"}})
    + Len(NameOrder) * Cardinality({n \in 1 .. Len(todo) : todo[n].do = "list"})
Pending == Allocs(threads[1].todo) + Allocs(threads[2].todo)

SlotPaths == {opened_files[i].path : i \in 1 .. Len(opened_files)}
ChildPaths == {RootPath \o <<"/", c>> : c \in NameChars}
(* the requests that resolve a path to an inode *)
ResolveRequests ==
    ([op : {"lookup"}, path : ChildPaths])
    \cup ([op : {"getattr"}, path : SlotPaths \ {RootPath}])
    \cup {[op |-> "readdir", path |-> RootPath]}
(* every handler that takes a lock: the file a is looked up (Getattr     *)
(* takes the same steps), created, opened, written, released and         *)
(* unlinked, the directory d is made, the root is listed                 *)
FilePath == RootPath \o <<"/", "a">>
ThreadRequests ==
    {[op |-> "init", path |-> RootPath],
     [op |-> "lookup", path |-> FilePath],
     [op |-> "readdir", path |-> RootPath],
     [op |-> "mkdir", path |-> RootPath \o <<"/", "d">>]}
    \cup ([op : {"create", "unlink"}, path : {FilePath}])
    \cup ([op : {"open", "write", "release"}, path : SlotPaths \cap {FilePath}])

ThreadsOnly ==
    UNCHANGED <<opened_files, opened_files_map, opened_files_writer, backend,
                capability, avail, last, lookup_ino, panicked, vq, fut, dcc, ovfs>>
ThreadRest ==
    UNCHANGED <<capability, avail, last, lookup_ino, panicked, vq, fut, dcc, ovfs>>

Doing(i, do) == threads[i].todo # <<>> /\ Head(threads[i].todo).do = do
StepPath(i) == Head(threads[i].todo).path
(* the thread goes on to its next step *)
Proceed(i) == [threads EXCEPT ![i].todo = Tail(@), ![i].path = StepPath(i)]
(* the handler returns early: the guards it holds are dropped, the one    *)
(* taken last first                                                       *)
Unwind(i) ==
    [threads EXCEPT ![i].path = StepPath(i),
                    ![i].todo = Steps((IF "writer" \in threads[i].holds
                                       THEN <<"unlock_writer">> ELSE <<>>)
                                      \o (IF "map" \in threads[i].holds
                                          THEN <<"unlock_map">> ELSE <<>>),
                                      StepPath(i))]

StartHandler(i, req) ==
    /\ threads[i].op = "none"
    /\ Len(opened_files) + Pending + Allocs(Script(req.op, req.path)) <= MaxSlots
    /\ threads' = [threads EXCEPT ![i] = [NoThread EXCEPT !.op = req.op,
                                                          !.path = req.path,
                                                          !.todo = Script(req.op, req.path),
                                                          !.shard = threads[i].shard]]
    /\ ThreadsOnly

(* a request arrives at a free thread; but for Init it names a slot, the  *)
(* root's for the requests that carry a name                              *)
StartThread(i) ==
    \E req \in ThreadRequests :
        /\ req.op # "init" => RootPath \in SlotPaths
        /\ StartHandler(i, req)

(* Init is served alone; the requests that resolve paths run together *)
StartResolve(i) ==
    \/ /\ \A j \in ThreadIds : threads[j].op = "none"
       /\ opened_files = <<>>
       /\ StartHandler(i, [op |-> "init", path |-> RootPath])
    \/ \E req \in ResolveRequests :
          /\ RootPath \in SlotPaths
          /\ \A j \in ThreadIds : threads[j].op # "init"
          /\ StartHandler(i, req)

(* the handler has replied; the thread keeps its shard *)
EndThread(i) ==
    /\ threads[i].op # "none" /\ threads[i].todo = <<>>
    /\ threads' = [threads EXCEPT ![i] = [NoThread EXCEPT !.shard = threads[i].shard]]
    /\ ThreadsOnly

(* opened_files_map.lock() that does not wait for the holder *)
LockMapNoWait(i) ==
    /\ Doing(i, "lock_map")
    /\ threads' = [Proceed(i) EXCEPT ![i].holds = @ \cup {"map"}]
    /\ ThreadsOnly

(* self.opened_files_map.lock().unwrap(): waits while any thread, this    *)
(* one included, holds the guard                                          *)
LockMap(i) ==
    /\ Doing(i, "lock_map")
    /\ \A j \in ThreadIds : "map" \notin threads[j].holds
    /\ threads' = [Proceed(i) EXCEPT ![i].holds = @ \cup {"map"}]
    /\ ThreadsOnly

UnlockMap(i) ==
    /\ Doing(i, "unlock_map")
    /\ threads' = [Proceed(i) EXCEPT ![i].holds = @ \ {"map"}]
    /\ ThreadsOnly

(* self.opened_files_writer.lock().unwrap() *)
LockWriter(i) ==
    /\ Doing(i, "lock_writer")
    /\ \A j \in ThreadIds : "writer" \notin threads[j].holds
    /\ threads' = [Proceed(i) EXCEPT ![i].holds = @ \cup {"writer"}]
    /\ ThreadsOnly

UnlockWriter(i) ==
    /\ Doing(i, "unlock_writer")
    /\ threads' = [Proceed(i) EXCEPT ![i].holds = @ \ {"writer"}]
    /\ ThreadsOnly

(* do_get_metadata, line 744: core.stat(path) is awaited; ? returns Err *)
StatStep(i) ==
    /\ Doing(i, "stat")
    /\ threads' = IF BackendStat(backend, StepPath(i), FALSE).ok
                  THEN Proceed(i) ELSE Unwind(i)
    /\ ThreadsOnly

(* lines 752 and 874: opened_files_map.get(path) *)
MapGet(i) ==
    /\ Doing(i, "map_get")
    /\ threads' = [Proceed(i) EXCEPT ![i].inode =
                      IF StepPath(i) \in DOMAIN opened_files_map
                      THEN opened_files_map[StepPath(i)] ELSE -1]
    /\ ThreadsOnly

(* lines 754-760 and 877-882: the else branch inserts a slot and maps the *)
(* path to it                                                             *)
InsertAbsent(i) ==
    /\ Doing(i, "insert_absent")
    /\ IF threads[i].inode # -1
       THEN /\ threads' = Proceed(i)
            /\ UNCHANGED <<opened_files, opened_files_map>>
       ELSE LET ins == ShardInsert(opened_files, i,
                                   Stored(OpenedFileNew("FILE", StepPath(i))))
            IN /\ opened_files' = ins.f
               /\ opened_files_map' = MapInsert(opened_files_map, StepPath(i), ins.inode)
               /\ threads' = [Proceed(i) EXCEPT ![i].inode = ins.inode,
                                                ![i].shard = ins.shard]
    /\ UNCHANGED <<opened_files_writer, backend>>
    /\ ThreadRest

(* lines 158-163, 285-288, 499-502: opened_files.insert(attr.clone()) *)
SlabInsertStep(i) ==
    /\ Doing(i, "slab_insert")
    /\ LET ins == ShardInsert(opened_files, i,
                              Stored([OpenedFileNew("FILE", StepPath(i)) EXCEPT
                                        !.ino = IF threads[i].op = "init"
                                                THEN DEFAULT_ROOT_DIR_INODE ELSE 0]))
       IN /\ opened_files' = ins.f
          /\ threads' = [Proceed(i) EXCEPT ![i].inode = ins.inode,
                                           ![i].shard = ins.shard]
    /\ UNCHANGED <<opened_files_map, opened_files_writer, backend>>
    /\ ThreadRest

(* lines 167, 292, 506: opened_files_map.insert(path, inode) *)
MapInsertStep(i) ==
    /\ Doing(i, "map_insert")
    /\ opened_files_map' =
          MapInsert(opened_files_map, StepPath(i),
                    IF threads[i].op = "init" THEN DEFAULT_ROOT_DIR_INODE
                    ELSE threads[i].inode)
    /\ threads' = Proceed(i)
    /\ UNCHANGED <<opened_files, opened_files_writer, backend>>
    /\ ThreadRest

(* lines 345 and 550: opened_files_map.remove(&path) *)
MapRemoveStep(i) ==
    /\ Doing(i, "map_remove")
    /\ opened_files_map' = MapRemove(opened_files_map, StepPath(i))
    /\ threads' = Proceed(i)
    /\ UNCHANGED <<opened_files, opened_files_writer, backend>>
    /\ ThreadRest

(* do_readdir, lines 855-861: core.list(path) is awaited; the closure     *)
(* then runs for each entry of the listing                                *)
RECURSIVE EntrySteps(_, _)
EntrySteps(path, ents) ==
    IF ents = <<>> THEN <<>>
    ELSE Steps(ReaddirEntrySteps, path \o <<"/">> \o Head(ents).name)
         \o EntrySteps(path, Tail(ents))

ListStep(i) ==
    /\ Doing(i, "list")
    /\ LET ls == BackendList(backend, StepPath(i), FALSE)
       IN threads' = IF ~ls.ok THEN Unwind(i)
                     ELSE [Proceed(i) EXCEPT ![i].todo = EntrySteps(StepPath(i), ls.entries)]
    /\ ThreadsOnly

(* an awaited backend call that changes the stored objects: writer_with   *)
(* (line 772), create_dir (line 508), delete (lines 340, 545) and         *)
(* write_from of an empty buffer (line 826)                               *)
BackendCall(b, do, path) ==
    CASE do = "writer_with" -> BackendOpenWriter(b, path, FALSE, FALSE)
      [] do = "create_dir" -> BackendCreateDir(b, Append(path, "/"), FALSE)
      [] do = "delete" -> BackendDelete(b, path, FALSE)
      [] OTHER -> BackendWriteFrom(b, path, 0, FALSE)

BackendStep(i) ==
    /\ \E do \in {"writer_with", "create_dir", "delete", "write_from"} : Doing(i, do)
    /\ LET r == BackendCall(backend, Head(threads[i].todo).do, StepPath(i))
       IN /\ backend' = r.b
          /\ threads' = IF r.ok THEN Proceed(i) ELSE Unwind(i)
    /\ UNCHANGED <<opened_files, opened_files_map, opened_files_writer>>
    /\ ThreadRest

(* the writer registry under its lock: insert (line 790), the lookup and  *)
(* the offset check of do_write (lines 818-824), the advance (line 829),  *)
(* remove (line 363)                                                      *)
WriterStep(i) ==
    /\ \E do \in {"writer_insert", "writer_check", "writer_advance", "writer_remove"} :
          Doing(i, do)
    /\ LET do == Head(threads[i].todo).do
           p == StepPath(i)
       IN /\ opened_files_writer' =
                IF do = "writer_insert"
                THEN MapInsert(opened_files_writer, p, [written |-> 0])
                ELSE IF do = "writer_remove" THEN MapRemove(opened_files_writer, p)
                ELSE opened_files_writer
          /\ threads' = IF do = "writer_check"
                           /\ (p \notin DOMAIN opened_files_writer
                               \/ opened_files_writer[p].written # 0)
                        THEN Unwind(i) ELSE Proceed(i)
    /\ UNCHANGED <<opened_files, opened_files_map, backend>>
    /\ ThreadRest

ThreadStep(i) ==
    \/ LockMap(i)
    \/ UnlockMap(i)
    \/ LockWriter(i)
    \/ UnlockWriter(i)
    \/ StatStep(i)
    \/ MapGet(i)
    \/ InsertAbsent(i)
    \/ SlabInsertStep(i)
    \/ MapInsertStep(i)
    \/ MapRemoveStep(i)
    \/ ListStep(i)
    \/ BackendStep(i)
    \/ WriterStep(i)

ThreadNext ==
    \E i \in ThreadIds :
        \/ StartThread(i)
        \/ ThreadStep(i)
        \/ EndThread(i)

ThreadSpec == InitState /\ [][ThreadNext]_vars

ResolveNext ==
    \E i \in ThreadIds :
        \/ StartResolve(i)
        \/ LockMap(i)
        \/ UnlockMap(i)
        \/ StatStep(i)
        \/ MapGet(i)
        \/ InsertAbsent(i)
        \/ SlabInsertStep(i)
        \/ MapInsertStep(i)
        \/ ListStep(i)
        \/ EndThread(i)

ResolveSpec == InitState /\ [][ResolveNext]_vars

(* ===================== properties of the session ======================= *)
Slots == 0 .. (Len(opened_files) - 1)
Answered == last # Idle
Replied == Answered /\ last.rep.kind = "ok"

(* C3: without an Unlink or Rmdir of a path in between, every successful  *)
(* Lookup resolving to that path returns the nodeid the previous Lookup   *)
(* returned, and allocates no slot.                                       *)
C3_LookupStable ==
    [][(last = Idle /\ last'.op = OpLookup /\ last'.rep.kind = "ok"
        /\ last'.path \in DOMAIN lookup_ino)
       => (last'.rep.nodeid = lookup_ino[last'.path]
           /\ opened_files' = opened_files)]_vars

(* C4: a successful Getattr or Setattr of nodeid k replies Attr.ino = k,  *)
(* the content length of the slot's path and the mode of the backend      *)
(* entry.                                                                 *)
C4_GetattrInoIsNodeid ==
    (Replied /\ last.op \in {OpGetattr, OpSetattr})
    => (/\ last.rep.ino = last.nodeid
        /\ last.rep.size = backend[Normalize(last.path)].len
        /\ last.rep.mode = backend[Normalize(last.path)].mode)

(* C5 as stated: path_map[p] = k if and only if slot k exists and holds p *)
C5_MapIffSlab ==
    \A p \in SlotPaths \cup DOMAIN opened_files_map :
        \A k \in Slots \cup {opened_files_map[q] : q \in DOMAIN opened_files_map} :
            (p \in DOMAIN opened_files_map /\ opened_files_map[p] = k)
            <=> (SlabHas(opened_files, k) /\ SlabGet(opened_files, k).path = p)

(* C5 amended: every entry of the path map points to an allocated slot    *)
(* that holds the entry's path.                                           *)
C5_MapPointsToSlot ==
    \A p \in DOMAIN opened_files_map :
        /\ SlabHas(opened_files, opened_files_map[p])
        /\ SlabGet(opened_files, opened_files_map[p]).path = p

(* a mapped path that an older slot, no longer mapped, holds as well *)
C5_Witness ==
    \E p \in DOMAIN opened_files_map : \E k \in Slots :
        /\ opened_files_map[p] >= 2
        /\ k >= 2
        /\ k # opened_files_map[p]
        /\ SlabGet(opened_files, k).path = p

(* C6 as stated: after any request the path map has at most one entry     *)
(* less than the slab has slots.                                          *)
C6_MapBelowSlabAlways ==
    Answered => Cardinality(DOMAIN opened_files_map) <= Len(opened_files) - 1

(* C6 amended: the path map never has more entries than the slab has      *)
(* slots, and at least one less once Init has allocated the root.         *)
C6_MapBelowSlab ==
    /\ Cardinality(DOMAIN opened_files_map) <= Len(opened_files)
    /\ Len(opened_files) > 0
       => Cardinality(DOMAIN opened_files_map) <= Len(opened_files) - 1

(* a request handled with the path map one entry short of the slab *)
C6_Witness ==
    /\ Answered
    /\ Len(opened_files) >= 3
    /\ Cardinality(DOMAIN opened_files_map) = Len(opened_files) - 1

C8_InoPositive ==
    Replied
    => (/\ last.rep.nodeid # -1 => last.rep.nodeid >= 1
        /\ last.rep.ino # -1 => last.rep.ino >= 1
        /\ \A i \in 1 .. Len(last.rep.dirents) : last.rep.dirents[i].ino >= 1)

(* slot 0 was asked for and the reply carries an inode number *)
C8_Witness ==
    /\ Replied
    /\ last.op = OpGetattr
    /\ last.nodeid = 0
    /\ last.rep.ino >= 1

(* the Write the worker is about to take off the queue, and its path *)
WriteTaken ==
    /\ avail # NoChain
    /\ avail.h.opcode = OpWrite
    /\ avail' = NoChain
    /\ SlabHas(opened_files, avail.h.nodeid)
TakenPath == SlabGet(opened_files, avail.h.nodeid).path

(* C1: a Write replied with success found the cursor of its path at       *)
(* WriteIn.offset and leaves it at that offset plus the number of bytes   *)
(* handed to the backend, by which the stored object has grown; no other  *)
(* path's writer changes and no writer is added or removed.               *)
C1_WriteAdvancesCursor ==
    [][(WriteTaken /\ last'.rep.kind = "ok")
       => (/\ TakenPath \in DOMAIN opened_files_writer
           /\ opened_files_writer[TakenPath].written = avail.h.offset
           /\ DOMAIN opened_files_writer' = DOMAIN opened_files_writer
           /\ opened_files_writer'[TakenPath].written
                 = avail.h.offset + last'.datalen
           /\ backend'[Normalize(TakenPath)].len
                 = backend[Normalize(TakenPath)].len + last'.datalen
           /\ \A p \in DOMAIN opened_files_writer \ {TakenPath} :
                 opened_files_writer'[p] = opened_files_writer[p])]_vars

(* a write of at least one byte at a cursor past 0, a second writer open *)
C1_Witness ==
    /\ Replied
    /\ last.op = OpWrite
    /\ last.offset > 0
    /\ last.datalen > 0
    /\ Cardinality(DOMAIN opened_files_writer) >= 2
    /\ opened_files_writer[last.path].written = last.offset + last.datalen

(* C2: a Write whose offset differs from the cursor of its path, or whose *)
(* path has no writer, changes neither the writer registry nor the stored *)
(* objects and, the writable chain holding an OutHeader, is replied with  *)
(* -EIO and a used length of 16; so is a Write whose backend call fails.  *)
C2_RejectedWriteChangesNothing ==
    [][(/\ WriteTaken
        /\ \/ TakenPath \notin DOMAIN opened_files_writer
           \/ opened_files_writer[TakenPath].written # avail.h.offset
           \/ avail.h.inject = 1)
       => (/\ opened_files_writer' = opened_files_writer
           /\ backend' = backend
           /\ SumSeq(avail.wbufs) >= SizeOutHeader
              => (/\ last'.rep.kind = "err"
                  /\ last'.rep.error = -EIO
                  /\ last'.rep.used = SizeOutHeader))]_vars

(* a Write below the cursor of an open writer was answered with -EIO *)
C2_Witness ==
    /\ Answered
    /\ last.op = OpWrite
    /\ last.path \in DOMAIN opened_files_writer
    /\ last.offset < opened_files_writer[last.path].written
    /\ last.datalen > 0
    /\ last.rep.error = -EIO

(* C9: every successful reply has written OutHeader.len bytes into the    *)
(* writable chain, and that is the used length handed to the event loop.  *)
C9_WrittenIsLen ==
    Replied => (last.rep.written = last.rep.len /\ last.rep.used = last.rep.len)

(* C10: a request that cannot be decoded, names no allocated inode or     *)
(* fails in the backend, with a writable chain that holds an OutHeader,   *)
(* is answered with a negated errno and a used length of 16, and the      *)
(* worker goes on.                                                        *)
C10_ErrorsAnswered ==
    (/\ Answered
     /\ last.cause \in {"decode", "noinode", "backend"}
     /\ last.wcap >= SizeOutHeader)
    => (/\ last.rep.kind = "err"
        /\ last.rep.error < 0
        /\ last.rep.used = SizeOutHeader
        /\ ~panicked)

(* C11: handle_message panics on no request, whatever in_header.len, the  *)
(* nodeid, the name bytes and the length of the writable chain are.       *)
C11_NoPanic ==
    Answered => last.rep.kind # "panic"

(* C12: the error header of a request whose backend call failed carries   *)
(* the negated errno that error.rs assigns to the kind of the failure.    *)
C12_ErrnoOfKind ==
    (/\ Answered
     /\ last.cause = "backend"
     /\ last.errkind \in ErrorKinds
     /\ last.wcap >= SizeOutHeader)
    => (last.rep.kind = "err" /\ last.rep.error = -ErrorFrom(last.errkind))

(* the Open the worker is about to take off the queue, for an inode that  *)
(* is allocated                                                           *)
OpenTaken ==
    /\ avail # NoChain
    /\ avail.h.opcode = OpOpen
    /\ avail' = NoChain
    /\ SlabHas(opened_files, avail.h.nodeid)

(* C13: an Open with write-like flags (access mode O_WRONLY or O_RDWR, or *)
(* O_APPEND, O_TRUNC, O_CREAT) on a backend without the write capability, *)
(* or with O_APPEND on one that cannot append, is replied with -EACCES    *)
(* and registers no writer.                                               *)
C13_OpenWithoutCapability ==
    [][(/\ OpenTaken
        /\ \/ avail.h.flags % (O_ACCMODE + 1) \in {O_WRONLY, O_RDWR}
           \/ HasBit(avail.h.flags, O_APPEND)
           \/ HasBit(avail.h.flags, O_TRUNC)
           \/ HasBit(avail.h.flags, O_CREAT)
        /\ \/ ~capability.write
           \/ HasBit(avail.h.flags, O_APPEND) /\ ~capability.write_can_append)
       => (/\ last'.rep.kind = "err"
           /\ last'.rep.error = -EACCES
           /\ opened_files_writer' = opened_files_writer)]_vars

(* C14: a request whose opcode is none of the nineteen known ones, whose  *)
(* header is readable and within the largest message, changes no state    *)
(* and, the writable chain holding an OutHeader, is replied with          *)
(* OutHeader{len = 16, error = -ENOSYS, unique = the request's unique}.   *)
C14_UnknownOpcode ==
    [][(/\ avail # NoChain
        /\ avail' = NoChain
        /\ avail.h.opcode \notin {1, 2, 3, 4, 9, 10, 11, 14, 15, 16, 18, 25, 26,
                                  27, 28, 29, 30, 35, 38}
        /\ SumSeq(avail.rbufs) >= SizeInHeader
        /\ avail.h.len <= MAX_BUFFER_SIZE + BUFFER_HEADER_SIZE)
       => (/\ opened_files' = opened_files
           /\ opened_files_map' = opened_files_map
           /\ opened_files_writer' = opened_files_writer
           /\ backend' = backend
           /\ SumSeq(avail.wbufs) >= SizeOutHeader
              => (/\ last'.rep.kind = "err"
                  /\ last'.rep.len = SizeOutHeader
                  /\ last'.rep.written = SizeOutHeader
                  /\ last'.rep.error = -ENOSYS
                  /\ last'.rep.unique = avail.h.unique))]_vars

(* opcode 99 with unique 2 was answered once inodes were allocated *)
C14_Witness ==
    /\ Answered
    /\ last.op = 99
    /\ last.op \notin Opcodes
    /\ last.rep.unique = 2
    /\ last.rep.error = -ENOSYS
    /\ Len(opened_files) >= 3

(* C15: an Init request whose InitIn can be read and whose chain has room *)
(* for the reply is accepted exactly when major is 7 and minor is at      *)
(* least 27.  Accepted, it is answered with error 0 and InitOut major 7,  *)
(* minor 38, max_write 1048576 and the remaining fields 0; rejected, with *)
(* a 16-byte header carrying -EIO, the slab and the path map unchanged.   *)
InitTaken ==
    /\ avail # NoChain /\ avail' = NoChain
    /\ avail.h.opcode = OpInit
    /\ avail.h.len <= MAX_BUFFER_SIZE + BUFFER_HEADER_SIZE
    /\ SumSeq(avail.rbufs) >= SizeInHeader + SizeInitIn
    /\ SumSeq(avail.wbufs) >= SizeOutHeader + SizeInitOut

C15_InitVersionCheck ==
    [][InitTaken =>
        IF avail.h.major = 7 /\ avail.h.minor >= 27
        THEN /\ last'.rep.kind = "ok" /\ last'.rep.error = 0
             /\ last'.rep.unique = avail.h.unique
             /\ last'.rep.major = 7 /\ last'.rep.minor = 38
             /\ last'.rep.max_write = 1048576 /\ last'.rep.flags = 0
        ELSE /\ last'.rep.kind = "err" /\ last'.rep.error = -EIO
             /\ last'.rep.len = 16 /\ last'.rep.written = 16
             /\ opened_files' = opened_files
             /\ opened_files_map' = opened_files_map]_vars

C15_Witness ==
    /\ Answered /\ last.op = OpInit /\ last.cause = "version"
    /\ last.rep.error = -EIO /\ Len(opened_files) >= 2

(* C16: a successful Init reply has OutHeader.len = 16 + 64 = 80: the     *)
(* InitOut record after the 16-byte header is 64 bytes long, and all 80   *)
(* bytes are put in the writable chain.                                   *)
C16_InitReplyLen ==
    (Replied /\ last.op = OpInit)
    => (last.rep.len = 16 + 64 /\ last.rep.written = 80 /\ last.rep.used = 80)

(* C16 as stated: the successful Init reply has OutHeader.len = 16 + 80   *)
C16_InitReplyLen96 ==
    (Replied /\ last.op = OpInit) => last.rep.len = 16 + 80

C16_Witness ==
    /\ Replied /\ last.op = OpInit /\ last.rep.error = 0
    /\ last.rep.major = KERNEL_VERSION /\ last.wcap >= SizeOutHeader + SizeInitOut

(* C17: a successful Open of an allocated inode whose flags are write-mode *)
(* (access mode O_WRONLY or O_RDWR, or O_APPEND set) registers a writer    *)
(* for the inode's path, with cursor 0 without O_APPEND and the stored     *)
(* object's length with O_APPEND, and changes no other path's writer; a    *)
(* successful Open with other flags leaves the registry as it was.         *)
OpenedPath == SlabGet(opened_files, avail.h.nodeid).path
OpenWriteMode ==
    \/ avail.h.flags % 4 \in {O_WRONLY, O_RDWR}
    \/ HasBit(avail.h.flags, O_APPEND)
StoredLen(np) == IF np \in DOMAIN backend THEN backend[np].len ELSE 0

C17_OpenRegistersWriter ==
    [][(OpenTaken /\ last'.rep.kind = "ok")
       => IF OpenWriteMode
          THEN /\ OpenedPath \in DOMAIN opened_files_writer'
               /\ opened_files_writer'[OpenedPath].written =
                      (IF HasBit(avail.h.flags, O_APPEND)
                       THEN StoredLen(Normalize(OpenedPath)) ELSE 0)
               /\ DOMAIN opened_files_writer' =
                      DOMAIN opened_files_writer \cup {OpenedPath}
               /\ \A q \in DOMAIN opened_files_writer \ {OpenedPath} :
                      opened_files_writer'[q] = opened_files_writer[q]
          ELSE opened_files_writer' = opened_files_writer]_vars

(* an append Open has registered a writer that starts past 0, after a     *)
(* Write made the object longer than it was stored                        *)
C17_Witness ==
    /\ Replied /\ last.op = OpOpen
    /\ last.path \in DOMAIN opened_files_writer
    /\ opened_files_writer[last.path].written = 2
    /\ Cardinality(DOMAIN opened_files_writer) >= 2

(* C18: a Create replied with success, whatever its flags, has allocated  *)
(* the next slot for parent.path/name, leaves a writer with cursor 0 for  *)
(* that path in the registry, and replies EntryOut followed by OpenOut    *)
(* with EntryOut.nodeid the new slot.                                     *)
C18_CreateRegistersWriter ==
    [][(avail # NoChain /\ avail.h.opcode = OpCreate /\ avail' = NoChain
        /\ last'.rep.kind = "ok")
       => (/\ Len(opened_files') = Len(opened_files) + 1
           /\ opened_files'[Len(opened_files')].path = last'.path
           /\ last'.rep.nodeid = Len(opened_files)
           /\ last'.rep.len = SizeOutHeader + SizeEntryOut + SizeOpenOut
           /\ last'.path \in DOMAIN opened_files_writer'
           /\ opened_files_writer'[last'.path].written = 0)]_vars

(* C19: a Release of an allocated inode removes the writer of the inode's *)
(* path, if there is one, and changes no other writer, no slot, no path   *)
(* map entry and no stored object.  From then on a Write to the path is   *)
(* replied with -EIO until a write-mode Open or a Create registers a      *)
(* writer again: a Write to a path without a writer is replied with -EIO  *)
(* and registers none, and only an Open with write-mode flags or a Create *)
(* adds a path to the registry.                                           *)
ReleaseTaken ==
    /\ avail # NoChain
    /\ avail.h.opcode = OpRelease
    /\ avail' = NoChain
    /\ SlabHas(opened_files, avail.h.nodeid)

C19_ReleaseDropsWriter ==
    [][/\ ReleaseTaken
          => (/\ DOMAIN opened_files_writer' = DOMAIN opened_files_writer \ {TakenPath}
              /\ \A q \in DOMAIN opened_files_writer' :
                    opened_files_writer'[q] = opened_files_writer[q]
              /\ opened_files' = opened_files
              /\ opened_files_map' = opened_files_map
              /\ backend' = backend
              /\ last'.rep.kind = "ok" /\ last'.rep.len = SizeOutHeader)
       /\ (WriteTaken /\ TakenPath \notin DOMAIN opened_files_writer)
          => (/\ opened_files_writer' = opened_files_writer
              /\ SumSeq(avail.wbufs) >= SizeOutHeader
                 => (last'.rep.kind = "err" /\ last'.rep.error = -EIO))
       /\ (DOMAIN opened_files_writer' \ DOMAIN opened_files_writer # {})
          => (/\ avail # NoChain
              /\ \/ avail.h.opcode = OpCreate
                 \/ avail.h.opcode = OpOpen /\ OpenWriteMode)]_vars

(* a Write was answered -EIO for want of a writer on a path whose stored  *)
(* object a writer, since released, had changed, while another path has a *)
(* writer                                                                 *)
C19_Witness ==
    /\ Answered /\ last.op = OpWrite /\ last.cause = "nowriter"
    /\ last.rep.error = -EIO
    /\ Normalize(last.path) \in DOMAIN backend
    /\ Normalize(last.path) \in DOMAIN WriteBackend
    /\ backend[Normalize(last.path)].len > WriteBackend[Normalize(last.path)].len
    /\ opened_files_writer # EmptyMap

(* C20: an Unlink or Rmdir of a name under an allocated parent that is    *)
(* replied with success has removed the entry of parent.path/name, and no *)
(* other, from the path map and has left every slot as it was; one whose  *)
(* backend delete fails leaves the path map, the slab and the stored      *)
(* objects as they were and is replied with a 16-byte error header.       *)
UnlinkTaken ==
    /\ avail # NoChain
    /\ avail.h.opcode \in {OpUnlink, OpRmdir}
    /\ avail' = NoChain
    /\ SlabHas(opened_files, avail.h.nodeid)
    /\ avail.h.payload \in GoodNames
UnlinkedPath == TakenPath \o <<"/", avail.h.payload[1]>>

C20_UnlinkRemovesMapEntry ==
    [][UnlinkTaken
       => (/\ last'.rep.kind \in {"ok", "err"}
           /\ last'.rep.kind = "ok"
              => (/\ DOMAIN opened_files_map' = DOMAIN opened_files_map \ {UnlinkedPath}
                  /\ \A q \in DOMAIN opened_files_map' :
                        opened_files_map'[q] = opened_files_map[q]
                  /\ opened_files' = opened_files
                  /\ Normalize(UnlinkedPath) \notin DOMAIN backend'
                  /\ last'.rep.len = SizeOutHeader /\ last'.rep.error = 0)
           /\ last'.rep.kind = "err"
              => (/\ last'.cause = "backend"
                  /\ opened_files_map' = opened_files_map
                  /\ opened_files' = opened_files
                  /\ backend' = backend
                  /\ last'.rep.len = SizeOutHeader /\ last'.rep.error < 0))]_vars

(* an Rmdir succeeded: its path has left the path map, where other paths  *)
(* remain, and a slot still holds it                                      *)
C20_Witness ==
    /\ Replied /\ last.op = OpRmdir
    /\ last.path \in SlotPaths
    /\ last.path \notin DOMAIN opened_files_map
    /\ Cardinality(DOMAIN opened_files_map) >= 2

(* C21: a Releasedir, Flush, Fsyncdir, Forget or Destroy that is handled   *)
(* without an error writes an OutHeader with error 0, len 16 and the       *)
(* request's unique, and returns 16 as the used length.                    *)
C21_MinimalHandlersReply ==
    [][(/\ avail # NoChain /\ avail' = NoChain
        /\ avail.h.opcode \in {OpReleasedir, OpFlush, OpFsyncdir, OpForget, OpDestroy}
        /\ last'.rep.kind \in {"ok", "none"})
       => (/\ last'.rep.kind = "ok"
           /\ last'.rep.error = 0
           /\ last'.rep.len = 16
           /\ last'.rep.unique = avail.h.unique
           /\ last'.rep.written = 16
           /\ last'.rep.used = 16)]_vars

(* the Readdir the worker is about to take off the queue: an allocated    *)
(* inode, a listing the backend delivers, a writable chain that holds the *)
(* OutHeader                                                              *)
ReaddirTaken ==
    /\ avail # NoChain /\ avail' = NoChain
    /\ avail.h.opcode = OpReaddir
    /\ SlabHas(opened_files, avail.h.nodeid)
    /\ avail.h.inject = 0
    /\ SumSeq(avail.rbufs) >= SizeInHeader + SizeReadIn
    /\ SumSeq(avail.wbufs) >= SizeOutHeader
(* length of a directory entry in the reply: 24 bytes, the name, padding  *)
PaddedLen(entry) == ((24 + Len(entry.name) + 7) \div 8) * 8
PaddedSum(entries, n) == SumSeq([i \in 1 .. n |-> PaddedLen(entries[i])])

(* C22: a Readdir whose entries do not all fit in ReadIn.size or in the   *)
(* writable chain is replied with success, the payload being the first    *)
(* entries of the listing, each whole, and at most ReadIn.size bytes.     *)
C22_ReaddirTruncates ==
    [][ReaddirTaken
       => (/\ last'.rep.kind = "ok"
           /\ last'.rep.len - SizeOutHeader <= avail.h.size
           /\ last'.rep.len <= SumSeq(avail.wbufs)
           /\ last'.rep.written = last'.rep.len
           /\ \E n \in 0 .. Len(last'.rep.dirents) :
                 last'.rep.len = SizeOutHeader + PaddedSum(last'.rep.dirents, n))]_vars

(* C23: in a successful Readdir reply entry i of the listing has off = i, *)
(* type_ 4 for a directory and 8 otherwise, and the name of the stored    *)
(* child without a trailing slash; it takes 24 bytes, the name and 0..7   *)
(* bytes of padding, a multiple of 8 in all; the entries are the children *)
(* of the directory, and OutHeader.len is 16 plus the padded lengths.     *)
ListedDir == Normalize(last.path)
ListedChildren ==
    {q \in DOMAIN backend : Len(q) = Len(ListedDir) + 1 /\ ParentOf(q) = ListedDir}

C23_ReaddirEntryLayout ==
    (Replied /\ last.op = OpReaddir /\ last.rep.dirents # <<>>)
    => LET es == last.rep.dirents
       IN /\ last.rep.len = 16 + PaddedSum(es, Len(es))
          /\ last.rep.written = last.rep.len
          /\ Len(es) = Cardinality(ListedChildren)
          /\ \A i \in 1 .. Len(es) :
                /\ es[i].off = i
                /\ PaddedLen(es[i]) % 8 = 0
                /\ PaddedLen(es[i]) - 24 - Len(es[i].name) \in 0 .. 7
                /\ \A j \in 1 .. Len(es[i].name) : es[i].name[j] # "/"
                /\ Append(ListedDir, es[i].name[1]) \in ListedChildren
                /\ es[i].type_ =
                      (IF backend[Append(ListedDir, es[i].name[1])].mode = "DIR"
                       THEN 4 ELSE 8)

(* a listing of a file and a directory was replied *)
C23_Witness ==
    /\ Replied /\ last.op = OpReaddir
    /\ Len(last.rep.dirents) >= 2
    /\ \E i, j \in 1 .. Len(last.rep.dirents) :
          last.rep.dirents[i].type_ = 4 /\ last.rep.dirents[j].type_ = 8


(* C24: under event_idx, once handle_event has returned Ok(()) every      *)
(* chain the device has taken from the available ring has its used entry, *)
(* and a chain that is still on the ring has kicked the queue: no chain   *)
(* waits on an idle worker without a pending notification.                *)
C24_NoLostWakeup ==
    (vq.pc = "idle" /\ vq.ret = "ok" /\ vq.event_idx)
        => /\ Len(vq.used) = vq.next_avail
           /\ vq.avail_event = vq.next_avail
           /\ vq.next_avail < Len(vq.ring) => vq.kicked

(* C25: every chain the device has taken from the available ring either   *)
(* has its used entry or still waits in the collected batch; the used     *)
(* ring lists the heads in available-ring order, one entry per chain; and *)
(* an entry pushed by a step carries the head of the chain just handled   *)
(* and the used length of the dispatcher's reply to it.                   *)
C25_RingOrder ==
    [][/\ Len(vq'.used) + Len(vq'.batch) = vq'.next_avail
       /\ \A i \in 1 .. Len(vq'.used) : vq'.used[i].id = vq'.ring[i].head
       /\ vq'.batch = SubSeq(vq'.ring, Len(vq'.used) + 1, vq'.next_avail)
       /\ Len(vq'.used) # Len(vq.used)
            => /\ vq'.used = Append(vq.used, [id |-> Head(vq.batch).head,
                                              len |-> last'.rep.used])
               /\ last'.op = Head(vq.batch).h.opcode]_vars

(* C26: a signal_used_queue that fails leaves the worker thread running   *)
C26_SignalFailureNotFatal == vq.signal = "fail" => vq.pc # "unwound"

(* C27: the guard of the writer registry is not held while a backend call *)
(* (writer_with, stat, write_from) is awaited                             *)
C27_NoLockAcrossBackendIo == fut.io # "none" => ~fut.lock

(* C28: after any sequence of consume calls through Reader::read,         *)
(* Writer::write, read_to_at and write_from_at, bytes_consumed is the sum *)
(* of the counts they returned and the slices left hold the original      *)
(* total less that sum.                                                   *)
C28_ConsumeAccounting ==
    dcc.op \in {"new", "read", "read_to_at", "write_from_at"}
        => /\ dcc.c.bytes_consumed = dcc.sum
           /\ SumSeq(dcc.c.buffers) = dcc.total - dcc.sum

C28_Witness ==
    /\ dcc.op = "read_to_at"
    /\ dcc.sum > dcc.arg
    /\ dcc.arg > 0
    /\ Len(dcc.c.buffers) > 0
    /\ SumSeq(dcc.c.buffers) > 0

(* C29: split_at(n) on a consumer of R remaining bytes: when n <= R the   *)
(* consumer keeps the first n of the addresses it would have yielded and  *)
(* the new consumer yields the other R - n in the same order, starting    *)
(* with bytes_consumed 0; when n > R it fails and the consumer is as it   *)
(* was.  The slice lengths agree with SplitAt.                            *)
C29_SplitAt ==
    dcc.op = "split_at"
        => LET c == dcc.arg.c
               n == dcc.arg.n
               all == Addrs(c.buffers)
               lens == SplitAt([c EXCEPT !.buffers = SliceLens(c.buffers)], n)
           IN /\ Len(all) = dcc.total
              /\ dcc.out.ok = (n <= dcc.total)
              /\ lens.ok = dcc.out.ok
              /\ lens.self.buffers = SliceLens(dcc.out.self.buffers)
              /\ lens.other.buffers = SliceLens(dcc.out.other.buffers)
              /\ IF n <= dcc.total
                 THEN /\ Addrs(dcc.out.self.buffers) = SubSeq(all, 1, n)
                      /\ Addrs(dcc.out.other.buffers) = SubSeq(all, n + 1, Len(all))
                      /\ dcc.out.self.bytes_consumed = c.bytes_consumed
                      /\ dcc.out.other.bytes_consumed = 0
                 ELSE dcc.out.self = c

(* n falls inside the second slice of three *)
C29_Witness ==
    /\ dcc.op = "split_at"
    /\ dcc.out.ok
    /\ Len(dcc.arg.c.buffers) = 3
    /\ Len(dcc.out.self.buffers) = 2
    /\ Len(dcc.out.other.buffers) = 2
    /\ dcc.out.other.buffers[1].addr > dcc.arg.c.buffers[2].addr
    /\ dcc.out.other.buffers[1].addr < dcc.arg.c.buffers[3].addr

(* C30: copying a staging buffer of N bytes out through                   *)
(* read_vectored_at_volatile and reading the slices back through          *)
(* write_vectored_at_volatile gives as many bytes as the slices hold: the *)
(* bytes that were copied, in order, then what the slices held before.    *)
(* The copy takes min(N, capacity) bytes when no slice is empty, and the  *)
(* original bytes come back exactly when all N were copied and the        *)
(* capacity is N.                                                         *)
C30_RoundTripCopiedPrefix ==
    dcc.op = "round_trip"
        => LET data == dcc.arg.data
               lens == dcc.arg.lens
               back == dcc.out.back
               copied == dcc.out.copied
           IN /\ copied = ReadVectoredAtVolatile(Len(data), lens)
              /\ dcc.out.len = (IF lens = <<>> THEN 0 ELSE WriteVectoredAtVolatile(lens))
              /\ Len(back) = dcc.total
              /\ copied <= Min(Len(data), dcc.total)
              /\ (\A i \in 1 .. Len(lens) : lens[i] > 0)
                    => copied = Min(Len(data), dcc.total)
              /\ SubSeq(back, 1, copied) = SubSeq(data, 1, copied)
              /\ \A i \in copied + 1 .. Len(back) : back[i] = "s"
              /\ (back = data) <=> (copied = Len(data) /\ dcc.total = Len(data))

(* the round trip gives the original bytes for every list of slices *)
C30_RoundTripAnySlices ==
    dcc.op = "round_trip" => dcc.out.back = dcc.arg.data

C30_Witness ==
    /\ dcc.op = "round_trip"
    /\ dcc.arg.data = <<"x", "y">>
    /\ dcc.arg.lens = <<1, 1>>
    /\ dcc.out.back = <<"x", "y">>

(* C31: the opened-inode table is a keyed store.  insert_opened_inode     *)
(* succeeds and returns a key that is not in use: the index of the next   *)
(* slot never used, 0, 1, 2, ... while no key has been deleted, or the    *)
(* slot at the head of the free list under a later generation.            *)
(* get_opened_inode returns the value stored last under a key in use and  *)
(* EBADF for any other key, a deleted one included; set and delete fail   *)
(* with EBADF on a key that is not in use and succeed on one that is.     *)
C31_InodeTable ==
    [][LET o == ovfs'.out
       IN ovfs' # ovfs =>
          /\ o.op = "insert" =>
                /\ o.ok
                /\ o.key \notin DOMAIN ovfs.stored
                /\ ovfs.head = Len(ovfs.slots) => o.key = Len(ovfs.slots)
                /\ (ovfs.head = Len(ovfs.slots) /\ Len(ovfs.slots) = ovfs.inserts)
                      => o.key = ovfs.inserts
                /\ ovfs.head < Len(ovfs.slots) => /\ SlabIdx(o.key) = ovfs.head
                                                  /\ SlabGen(o.key) > 0
          /\ o.op = "get" =>
                /\ o.ok = (o.key \in DOMAIN ovfs.stored)
                /\ o.ok => o.value = ovfs.stored[o.key]
                /\ ~o.ok => o.errno = EBADF
          /\ o.op \in {"set", "delete"} =>
                /\ o.ok = (o.key \in DOMAIN ovfs.stored)
                /\ ~o.ok => o.errno = EBADF
          /\ (o.op = "delete" /\ o.ok) => o.key \notin DOMAIN ovfs'.stored
          /\ (o.op = "set" /\ o.ok) => ovfs'.stored[o.key] = o.value]_vars

(* C32: a Write replied with success handed the backend a staging buffer  *)
(* of exactly WriteIn.size bytes, whatever the layout of the readable     *)
(* descriptors, and moved the cursor of its path by the WriteOut.size it  *)
(* reports.                                                               *)
C32_WriteStagesSizeBytes ==
    [][(WriteTaken /\ last'.rep.kind = "ok")
       => (/\ last'.datalen = avail.h.size
           /\ last'.rep.wsize = avail.h.size
           /\ opened_files_writer'[TakenPath].written
                 = opened_files_writer[TakenPath].written + last'.rep.wsize)]_vars
(* a Create or Mkdir whose name resolved is being taken off the queue *)
NewInodeTaken ==
    /\ avail # NoChain
    /\ avail.h.opcode \in {OpCreate, OpMkdir}
    /\ avail' = NoChain

(* C33: a Create or Mkdir that is replied with an error leaves the inode  *)
(* slab and the path map as they were before the request.                 *)
C33_FailedCreateAllocatesNothing ==
    [][(NewInodeTaken /\ last'.rep.kind = "err")
       => (opened_files' = opened_files /\ opened_files_map' = opened_files_map)]_vars
(* the slots of a slab that hold the path of the root directory *)
RootSlots(f) == {k \in 1 .. Len(f) : f[k].path = <<"/">>}

(* C34: an Init replied with success leaves exactly one slot holding the  *)
(* path "/", and when a root slot was there already it leaves the inode   *)
(* slab and the path map unchanged.                                       *)
C34_InitIdempotent ==
    [][(InitTaken /\ last'.rep.kind = "ok")
       => (/\ Cardinality(RootSlots(opened_files')) = 1
           /\ RootSlots(opened_files) # {}
              => (/\ opened_files' = opened_files
                  /\ opened_files_map' = opened_files_map))]_vars
(* the path Lookup(parent, name) resolves, filesystem.rs 208 *)
LookupKey(f, parent, name) == SlabGet(f, parent).path \o <<"/">> \o name

(* C35: after a successful Readdir of directory m, every entry it lists   *)
(* carries the inode the path map holds for the path that                 *)
(* Lookup(parent = m, name) resolves, so that the Lookup returns that     *)
(* inode as nodeid and allocates no second slot for the entry.            *)
C35_ReaddirLookupAgree ==
    [][(ReaddirTaken /\ last'.rep.kind = "ok")
       => \A i \in 1 .. Len(last'.rep.dirents) :
             LET key == LookupKey(opened_files, avail.h.nodeid,
                                  last'.rep.dirents[i].name)
             IN /\ key \in DOMAIN opened_files_map'
                /\ opened_files_map'[key] = last'.rep.dirents[i].ino]_vars
(* a thread serving Lookup, Getattr or Readdir that has the inode of its  *)
(* path in hand                                                           *)
HasResolved(i) ==
    /\ threads[i].op \in {"lookup", "getattr", "readdir"}
    /\ threads[i].inode # -1
    /\ threads[i].todo = <<>> \/ Head(threads[i].todo).do \in {"insert_absent", "unlock_map"}

(* C36: when requests that resolve the same path run on different        *)
(* threads, one slot is allocated for the path and every one of them      *)
(* obtains that slot's inode, the one the path map holds for the path.    *)
C36_ConcurrentLookupOneSlot ==
    /\ \A k1, k2 \in 1 .. Len(opened_files) :
          (k1 # k2 /\ opened_files[k1].path = opened_files[k2].path)
          => opened_files[k1].path = RootPath
    /\ \A i \in ThreadIds :
          HasResolved(i)
          => /\ threads[i].path \in DOMAIN opened_files_map
             /\ opened_files_map[threads[i].path] = threads[i].inode
             /\ ShardHas(opened_files, threads[i].inode)
             /\ ShardGet(opened_files, threads[i].inode).path = threads[i].path
    /\ \A i, j \in ThreadIds :
          (HasResolved(i) /\ HasResolved(j) /\ threads[i].path = threads[j].path)
          => threads[i].inode = threads[j].inode

(* two Lookups of one path overlap: the first has allocated the slot and  *)
(* not replied yet, the second has found the slot in the map              *)
C36_Witness ==
    /\ threads[1].op = "lookup" /\ threads[2].op = "lookup"
    /\ threads[1].path = threads[2].path
    /\ threads[1].todo = <<>>
    /\ "map" \in threads[2].holds
    /\ Doing(2, "unlock_map")
    /\ ShardHas(opened_files, threads[1].inode)
    /\ ShardGet(opened_files, threads[1].inode).path = threads[1].path
    /\ threads[2].inode = threads[1].inode

(* a thread that waits for a mutex another thread (or itself) holds *)
Blocked(i) ==
    \/ Doing(i, "lock_map") /\ \E j \in ThreadIds : "map" \in threads[j].holds
    \/ Doing(i, "lock_writer") /\ \E j \in ThreadIds : "writer" \in threads[j].holds

(* C37: handlers on several threads never deadlock on the two mutexes: a  *)
(* thread asks for the path map's lock only while it holds no lock, for   *)
(* the writer registry's lock only while it does not hold it, a handler   *)
(* that has returned holds no lock, and whenever handlers are running     *)
(* one of them can take a step.                                           *)
C37_NoDeadlock ==
    /\ \A i \in ThreadIds :
          /\ Doing(i, "lock_map") => threads[i].holds = {}
          /\ Doing(i, "lock_writer") => "writer" \notin threads[i].holds
          /\ threads[i].todo = <<>> => threads[i].holds = {}
    /\ (\E i \in ThreadIds : threads[i].todo # <<>>)
       => \E i \in ThreadIds : threads[i].todo # <<>> /\ ~Blocked(i)

(* Create holds the path map's lock and waits for the writer registry's   *)
(* lock, which a Write on the other thread holds                          *)
C37_Witness ==
    /\ threads[1].op = "create"
    /\ threads[1].holds = {"map"}
    /\ Doing(1, "lock_writer")
    /\ threads[2].op = "write"
    /\ "writer" \in threads[2].holds
    /\ Blocked(1)
(* C38: under event_idx, whenever handle_event_serial has returned, with  *)
(* Ok or with the Err of process_queue_serial, notifications are enabled: *)
(* avail_event is the available index, so that the next chain the guest   *)
(* publishes kicks the queue, or a kick is already pending.               *)
C38_ReturnLeavesNotificationsEnabled ==
    (vq.event_idx /\ vq.pc = "idle" /\ vq.ret \in {"ok", "err"})
        => (vq.kicked \/ vq.avail_event = Len(vq.ring))
ReadTaken ==
    /\ avail # NoChain /\ avail' = NoChain
    /\ avail.h.opcode = OpRead
    /\ SlabHas(opened_files, avail.h.nodeid)
(* bytes of the object of the Read being taken that lie at or after the   *)
(* offset of the request                                                  *)
BytesFromOffset ==
    IF StoredLen(Normalize(TakenPath)) > avail.h.offset
    THEN StoredLen(Normalize(TakenPath)) - avail.h.offset ELSE 0

(* C39: a Read replied with success carries the bytes of the object from  *)
(* ReadIn.offset on, at most ReadIn.size of them, and OutHeader.len is    *)
(* at most 16 + ReadIn.size.                                              *)
C39_ReadWithinSize ==
    [][(ReadTaken /\ last'.rep.kind = "ok")
       => (/\ last'.datalen = Min(avail.h.size, BytesFromOffset)
           /\ last'.rep.len = SizeOutHeader + last'.datalen
           /\ last'.rep.len <= SizeOutHeader + avail.h.size)]_vars

(* C40: a Readdir with ReadIn.offset = k replied with success emits the   *)
(* entries that follow entry k of the listing and no other: its i-th      *)
(* entry has off = k + i.                                                 *)
C40_ReaddirFromOffset ==
    [][(ReaddirTaken /\ last'.rep.kind = "ok")
       => \A i \in 1 .. Len(last'.rep.dirents) :
             last'.rep.dirents[i].off = avail.h.offset + i]_vars
====
